---- MODULE Spec2Model ----
(***************************************************************************)
(* seroski-dupbot: the duplicate check of one issue event (the AI-capable  *)
(* script, its plain variant and the older threshold check), the close     *)
(* cleanup, the cleanup of one issue, and the vector index they share.     *)
(* Similarity scores and confidences are hundredths: the 0.85 of the       *)
(* source is 85 here.                                                      *)
(***************************************************************************)
EXTENDS Integers, Sequences, FiniteSets, TLC

\* ------------------------------------------------------------------ bounds
MaxCand == 2        \* matches in one similarity-query answer (topK: 10 in the source)
MaxTopK == 2        \* largest configured AI_VERIFICATION_TOPK explored

\* ------------------------------------------------------- program constants
ISSUE_NUMBER == 1   \* the subject issue of every run
HIGH == 85          \* d.similarity >= 0.85
MEDIUM == 55        \* r.score >= 0.55
AI_THRESHOLD == 75  \* AI_VERIFICATION_CONFIDENCE_THRESHOLD || "0.75"
MaxRetries == 3     \* retryApiCall(apiCall, maxRetries = 3, ...)
BaseDelay == 1000   \* delay = 1000
Resolves == 200     \* the attempt resolves; any other value is error.status
NoStatus == 0       \* an error without a status (error.status undefined)
NoNumber == 0       \* a match whose metadata has no (or a falsy) issue_number
Unknown == -1       \* r.metadata?.issue_number || "Unknown"
MinTextLength == 10 \* newText.length < 10

Min(a, b) == IF a <= b THEN a ELSE b

Range(f) == {f[i] : i \in DOMAIN f}

\* ------------------------------------------------------------- retryApiCall
\* One attempt of a wrapped call: "ok", "transient" (error.status 429 or >= 500)
\* or "fatal" (any other error).  plan[i] is what attempt i would do.
Attempt == {"ok", "transient", "fatal"}
Plans == [1..MaxRetries -> Attempt]

RECURSIVE retryFrom(_, _)
retryFrom(plan, i) ==
    IF plan[i] = "ok" THEN [ok |-> TRUE, attempts |-> i]
    ELSE IF i = MaxRetries THEN [ok |-> FALSE, attempts |-> i]
    ELSE IF plan[i] = "transient" THEN retryFrom(plan, i + 1)
    ELSE [ok |-> FALSE, attempts |-> i]

retryApiCall(plan) == retryFrom(plan, 1)

\* Whether a wrapped call ends well, over every plan of its attempts.
retryOutcomes == {retryApiCall(plan).ok : plan \in Plans}

\* ------------------------------------------------------ similarity matches
\* A match of index.query: [id, num, score]; num is metadata.issue_number.
\* A candidate ("duplicates" entry): [id, number, similarity]; id stands for the
\* identity of the object, the source keeps number, similarity and title.
NoMatch == [id |-> 0, number |-> 0, similarity |-> 0]

notSelf_keepAll(r) == TRUE

notSelf(r) == r.num # ISSUE_NUMBER

aboveMedium(r) == r.score >= MEDIUM

toCandidate(r) ==
    [id |-> r.id,
     number |-> IF r.num = NoNumber THEN Unknown ELSE r.num,
     similarity |-> r.score]

MapCandidates(rs) == [i \in 1..Len(rs) |-> toCandidate(rs[i])]

\* Array.prototype.sort with (a, b) => b.similarity - a.similarity: stable, descending.
insertDesc(d, s) ==
    LET k == Cardinality({i \in 1..Len(s) : s[i].similarity >= d.similarity})
    IN SubSeq(s, 1, k) \o <<d>> \o SubSeq(s, k + 1, Len(s))

RECURSIVE sortBySimilarity(_)
sortBySimilarity(s) ==
    IF s = <<>> THEN <<>>
    ELSE insertDesc(s[Len(s)], sortBySimilarity(SubSeq(s, 1, Len(s) - 1)))

filteredResultsOf(rs) == SelectSeq(rs, notSelf)

duplicatesOf(rs) ==
    sortBySimilarity(MapCandidates(SelectSeq(filteredResultsOf(rs), aboveMedium)))

\* ------------------------------------------------------------- verifyWithAI
\* What one verification task meets: the candidate fetch fails, the generate call or
\* its parsing throws, or a parsed object comes back.
NoVerdict == [enabled |-> TRUE, valid |-> FALSE, is_duplicate |-> FALSE, confidence |-> 0]
Disabled == [enabled |-> FALSE, valid |-> FALSE, is_duplicate |-> FALSE, confidence |-> 0]

verifyWithAI(enabled, resp) ==
    IF ~enabled THEN Disabled
    ELSE IF resp.kind # "json" THEN NoVerdict
    ELSE IF ~resp.isBool \/ ~resp.isNum THEN NoVerdict
    ELSE [enabled |-> TRUE, valid |-> TRUE,
          is_duplicate |-> resp.is_duplicate, confidence |-> resp.confidence]

EmptyVerdicts == [n \in {} |-> NoVerdict]

\* A task that fails takes the verdicts gathered so far with it.
taskStore_dropOnFailure(d, op, enabled, verdicts) ==
    IF d.number = Unknown \/ op.kind = "fetchError" THEN EmptyVerdicts
    ELSE LET v == verifyWithAI(enabled, op)
         IN IF v.enabled /\ v.valid
            THEN [n \in (DOMAIN verdicts) \cup {d.number} |->
                     IF n = d.number THEN v ELSE verdicts[n]]
            ELSE EmptyVerdicts

\* The body of one task of the fan-out: fetch the candidate, ask, store a valid verdict.
taskStore(d, op, enabled, verdicts) ==
    IF d.number = Unknown \/ op.kind = "fetchError" THEN verdicts
    ELSE LET v == verifyWithAI(enabled, op)
         IN IF v.enabled /\ v.valid
            THEN [n \in (DOMAIN verdicts) \cup {d.number} |->
                     IF n = d.number THEN v ELSE verdicts[n]]
            ELSE verdicts

topKSlice(dups, k) == SubSeq(dups, 1, Min(k, Len(dups)))

\* The tasks settle in the order "ord" (positions of the slice); each stores on settling.
RECURSIVE settleTasks(_, _, _, _, _)
settleTasks(ord, tasks, opin, enabled, verdicts) ==
    IF ord = <<>> THEN verdicts
    ELSE LET d == tasks[Head(ord)]
         IN settleTasks(Tail(ord), tasks, opin, enabled,
                        taskStore(d, opin[d.id], enabled, verdicts))

verdictsOf(dups, enabled, k, opin, ord) ==
    IF enabled /\ Len(dups) > 0
    THEN LET tasks == topKSlice(dups, k)
             inSlice(i) == i <= Len(tasks)
         IN settleTasks(SelectSeq(ord, inSlice), tasks, opin, enabled, EmptyVerdicts)
    ELSE EmptyVerdicts

\* Candidate fetches and generate calls the fan-out issues.
aiCallsOf(dups, enabled, k) ==
    IF enabled /\ Len(dups) > 0 THEN Len(topKSlice(dups, k)) ELSE 0

\* ------------------------------------------------------ 3-tier classification
isHigh_strict(d) == d.similarity > HIGH

isHigh(d) == d.similarity >= HIGH

isMedium(d) == d.similarity >= MEDIUM /\ d.similarity < HIGH

\* A confidence equal to the threshold does not pass.
passesAI_strict(d, verdicts) ==
    /\ d.number \in DOMAIN verdicts
    /\ verdicts[d.number].valid
    /\ verdicts[d.number].is_duplicate = TRUE
    /\ verdicts[d.number].confidence > AI_THRESHOLD

passesAI(d, verdicts) ==
    /\ d.number \in DOMAIN verdicts
    /\ verdicts[d.number].valid
    /\ verdicts[d.number].is_duplicate = TRUE
    /\ verdicts[d.number].confidence >= AI_THRESHOLD

\* The band filtered whether or not verification is enabled.
highBand_alwaysFilter(dups, enabled, verdicts) ==
    LET passes(d) == passesAI(d, verdicts)
    IN SelectSeq(SelectSeq(dups, isHigh), passes)

\* Verification applied to the whole candidate list: a verdict promotes a medium match.
highBand_promote(dups, enabled, verdicts) ==
    LET passes(d) == passesAI(d, verdicts)
    IN IF enabled THEN SelectSeq(dups, passes) ELSE SelectSeq(dups, isHigh)

highBand(dups, enabled, verdicts) ==
    LET passes(d) == passesAI(d, verdicts)
        hi == SelectSeq(dups, isHigh)
    IN IF enabled THEN SelectSeq(hi, passes) ELSE hi

mediumBand(dups, enabled, verdicts) ==
    LET passes(d) == passesAI(d, verdicts)
        me == SelectSeq(dups, isMedium)
    IN IF enabled THEN SelectSeq(me, passes) ELSE me

\* Every tier persists the issue's vector.
tierFlags_persistAll(hs, ms, editing) ==
    IF Len(hs) > 0
    THEN [duplicateAction |-> "auto-close", topMatch |-> hs[1],
          shouldUpdateVector |-> TRUE, shouldAutoClose |-> ~editing]
    ELSE IF Len(ms) > 0
    THEN [duplicateAction |-> "flag-related", topMatch |-> ms[1],
          shouldUpdateVector |-> TRUE, shouldAutoClose |-> FALSE]
    ELSE [duplicateAction |-> "unique", topMatch |-> NoMatch,
          shouldUpdateVector |-> TRUE, shouldAutoClose |-> FALSE]

\* Auto-close decided by the tier alone.
tierFlags_closeEdits(hs, ms, editing) ==
    IF Len(hs) > 0
    THEN [duplicateAction |-> "auto-close", topMatch |-> hs[1],
          shouldUpdateVector |-> FALSE, shouldAutoClose |-> TRUE]
    ELSE IF Len(ms) > 0
    THEN [duplicateAction |-> "flag-related", topMatch |-> ms[1],
          shouldUpdateVector |-> TRUE, shouldAutoClose |-> FALSE]
    ELSE [duplicateAction |-> "unique", topMatch |-> NoMatch,
          shouldUpdateVector |-> TRUE, shouldAutoClose |-> FALSE]

tierFlags(hs, ms, editing) ==
    IF Len(hs) > 0
    THEN [duplicateAction |-> "auto-close", topMatch |-> hs[1],
          shouldUpdateVector |-> FALSE, shouldAutoClose |-> ~editing]
    ELSE IF Len(ms) > 0
    THEN [duplicateAction |-> "flag-related", topMatch |-> ms[1],
          shouldUpdateVector |-> TRUE, shouldAutoClose |-> FALSE]
    ELSE [duplicateAction |-> "unique", topMatch |-> NoMatch,
          shouldUpdateVector |-> TRUE, shouldAutoClose |-> FALSE]

classify(dups, enabled, verdicts, editing) ==
    tierFlags(highBand(dups, enabled, verdicts), mediumBand(dups, enabled, verdicts), editing)

\* The variant of the script that has no verifier.
classifyPlain(dups, editing) ==
    LET hi == SelectSeq(dups, isHigh)
        me == SelectSeq(dups, isMedium)
    IN IF Len(hi) > 0
       THEN [duplicateAction |-> "auto-close", topMatch |-> hi[1],
             shouldUpdateVector |-> FALSE, shouldAutoClose |-> ~editing]
       ELSE IF Len(me) > 0
       THEN [duplicateAction |-> "flag-related", topMatch |-> me[1],
             shouldUpdateVector |-> TRUE, shouldAutoClose |-> FALSE]
       ELSE [duplicateAction |-> "unique", topMatch |-> NoMatch,
             shouldUpdateVector |-> TRUE, shouldAutoClose |-> FALSE]

\* Query answer to outcome, as run() composes the steps above.
decide(rs, editing, enabled, k, opin, ord) ==
    LET dups == duplicatesOf(rs)
    IN classify(dups, enabled, verdictsOf(dups, enabled, k, opin, ord), editing)

\* ======================================================================
\* The state of the program: the shared index, and one run at a time.
\* ======================================================================
VARIABLES
    idx,                     \* the vector index: a set of records [id, num]
    clock,                   \* Date.now(), as the count of upserts so far
    runs,                    \* runs started so far
    pc,                      \* where the current run stands; "idle" between runs
    exit,                    \* how the last run ended: "ok", "rejected" (run().catch), "exit1"
    idxAtStart,              \* the index when the current run started
    job,                     \* the script of the current run and what its subject is
    log,                     \* the tracker and index-mutation calls of the current run
    existingVectorIds,
    isEditingExistingIssue,
    paginationToken,
    duplicates,
    aiVerdicts,
    aiCalls,                 \* candidate fetches / generate calls of the current run
    highSimilarityDuplicates,
    mediumSimilarityDuplicates,
    out,                     \* duplicateAction, topMatch, shouldUpdateVector, shouldAutoClose
    AI_ENABLED,              \* process.env.AI_VERIFICATION_ENABLED
    AI_TOPK,                 \* process.env.AI_VERIFICATION_TOPK
    SIMILARITY_THRESHOLD,    \* parseFloat(process.env.SIMILARITY_THRESHOLD || "0.5")
    filterWorks,             \* whether the index backend filters on metadata
    results,                 \* the similarity-query answer (classification runs)
    opinion,                 \* what each verification task meets, by match id
    order,                   \* the order in which the verification tasks settle
    apiCall,                 \* what each attempt of a wrapped call meets (retry runs)
    attempt,                 \* attempts made so far: i of the retry loop
    delay,                   \* milliseconds before the next attempt
    settled,                 \* "pending", "returned" or "thrown"
    procs,                   \* the runs in flight together (interleaved runs)
    args,                    \* process.argv.slice(2) of a maintenance script
    vectors,                 \* the index a maintenance script works on: records [id, num]
    allVectors,              \* the matches of the maintenance script's query, in order
    vectorsToDelete,         \* ids queued for deletion, in order
    vectorsToKeep,
    deleted,                 \* how many ids the successful delete batches held
    batchStart               \* i of the batch loop

vars == <<idx, clock, runs, pc, exit, idxAtStart, job, log, existingVectorIds,
          isEditingExistingIssue, paginationToken, duplicates, aiVerdicts, aiCalls,
          highSimilarityDuplicates, mediumSimilarityDuplicates,
          out, AI_ENABLED, AI_TOPK, SIMILARITY_THRESHOLD, filterWorks, results, opinion,
          order,
          apiCall, attempt, delay, settled, procs,
          args, vectors, allVectors, vectorsToDelete, vectorsToKeep, deleted, batchStart>>

config == <<AI_ENABLED, AI_TOPK, SIMILARITY_THRESHOLD, filterWorks>>
inputs == <<results, opinion, order>>
retryVars == <<apiCall, attempt, delay, settled>>
maintVars == <<args, vectors, allVectors, vectorsToDelete, vectorsToKeep, deleted, batchStart>>
locals == <<existingVectorIds, isEditingExistingIssue, paginationToken, duplicates,
            aiVerdicts, aiCalls, highSimilarityDuplicates, mediumSimilarityDuplicates, out>>

\* No maintenance script is running.
noMaintenance ==
    /\ args = {}
    /\ vectors = {}
    /\ allVectors = <<>>
    /\ vectorsToDelete = <<>>
    /\ vectorsToKeep = <<>>
    /\ deleted = 0
    /\ batchStart = 0

NoOut == [duplicateAction |-> "none", topMatch |-> NoMatch,
          shouldUpdateVector |-> TRUE, shouldAutoClose |-> FALSE]

\* What a verification task can meet.
FetchError == [kind |-> "fetchError", isBool |-> FALSE, isNum |-> FALSE,
               is_duplicate |-> FALSE, confidence |-> 0]
Garbled == [kind |-> "error", isBool |-> FALSE, isNum |-> FALSE,
            is_duplicate |-> FALSE, confidence |-> 0]
Answer(dup, conf) == [kind |-> "json", isBool |-> TRUE, isNum |-> TRUE,
                      is_duplicate |-> dup, confidence |-> conf]

Perms(n) == {p \in [1..n -> 1..n] : \A i, j \in 1..n : i # j => p[i] # p[j]}

SeqsUpTo(S, n) == UNION {[1..k -> S] : k \in 0..n}

\* ======================================================================
\* Classification alone: one query answer, one configuration, one outcome.
\* ======================================================================
Numbers == {NoNumber, ISSUE_NUMBER, 2, 3}
Scores == {54, 55, 84, 85, 90}
Opinions == {Garbled, Answer(TRUE, 75), Answer(FALSE, 90)}
DefaultThreshold == 50 \* process.env.SIMILARITY_THRESHOLD || "0.5"
Thresholds == {DefaultThreshold, 70}
DefaultTopK == 3    \* AI_VERIFICATION_TOPK || "3"

sortedDesc(rs) == \A i \in 1..(Len(rs) - 1) : rs[i].score >= rs[i + 1].score

\* The answers index.query can give: at most MaxCand matches, best score first.
Answers ==
    {[i \in 1..Len(a) |-> [id |-> i, num |-> a[i].num, score |-> a[i].score]] :
        a \in {b \in SeqsUpTo([num : Numbers, score : Scores], MaxCand) : sortedDesc(b)}}

\* The records of the other issues: one, or enough to fill the first listing page.
IdleIndex == {[id |-> 1, num |-> 2]}
FullPageIndex == {[id |-> 1, num |-> 2], [id |-> 2, num |-> 3]}

Job(script, kind, len) == [script |-> script, kind |-> kind, len |-> len]

InitClassify ==
    /\ idx = IdleIndex /\ clock = 0 /\ runs = 0
    /\ pc = "classify" /\ exit = "ok" /\ idxAtStart = IdleIndex /\ log = <<>>
    /\ job = Job("check", "issue", MinTextLength)
    /\ existingVectorIds = {} /\ paginationToken = 0
    /\ isEditingExistingIssue \in BOOLEAN
    /\ duplicates = <<>> /\ aiVerdicts = EmptyVerdicts /\ aiCalls = 0
    /\ highSimilarityDuplicates = <<>> /\ mediumSimilarityDuplicates = <<>>
    /\ out = NoOut
    /\ filterWorks = TRUE
    /\ AI_ENABLED \in BOOLEAN
    /\ AI_TOPK \in (IF AI_ENABLED THEN 1..MaxTopK ELSE {DefaultTopK})
    /\ SIMILARITY_THRESHOLD \in Thresholds
    /\ results \in Answers
    /\ opinion \in (IF AI_ENABLED THEN [1..Len(results) -> Opinions]
                    ELSE {[i \in 1..Len(results) |-> Garbled]})
    /\ order \in (IF AI_ENABLED THEN Perms(Min(AI_TOPK, Len(results))) ELSE {<<>>})
    /\ apiCall = <<>> /\ attempt = 0 /\ delay = BaseDelay /\ settled = "returned"
    /\ procs = <<>>
    /\ noMaintenance

\* Lines 483-660 of the AI-capable script: candidates, fan-out, bands, tier, flags.
Classify ==
    /\ pc = "classify"
    /\ duplicates' = duplicatesOf(results)
    /\ aiVerdicts' = verdictsOf(duplicates', AI_ENABLED, AI_TOPK, opinion, order)
    /\ aiCalls' = aiCallsOf(duplicates', AI_ENABLED, AI_TOPK)
    /\ highSimilarityDuplicates' = highBand(duplicates', AI_ENABLED, aiVerdicts')
    /\ mediumSimilarityDuplicates' = mediumBand(duplicates', AI_ENABLED, aiVerdicts')
    /\ out' = tierFlags(highSimilarityDuplicates', mediumSimilarityDuplicates',
                        isEditingExistingIssue)
    /\ pc' = "classified"
    /\ UNCHANGED <<idx, clock, runs, exit, idxAtStart, job, log, existingVectorIds,
                   isEditingExistingIssue, paginationToken, config, inputs,
                   retryVars, procs, maintVars>>

plainDuplicatesOf(rs) ==
    sortBySimilarity(MapCandidates(SelectSeq(SelectSeq(rs, notSelf), aboveMedium)))

\* Lines 1033-1151 of the script without a verifier.
ClassifyPlain ==
    /\ pc = "classify" /\ ~AI_ENABLED
    /\ duplicates' = plainDuplicatesOf(results)
    /\ highSimilarityDuplicates' = SelectSeq(duplicates', isHigh)
    /\ mediumSimilarityDuplicates' = SelectSeq(duplicates', isMedium)
    /\ out' = classifyPlain(duplicates', isEditingExistingIssue)
    /\ pc' = "classifiedPlain"
    /\ UNCHANGED <<idx, clock, runs, exit, idxAtStart, job, log, existingVectorIds,
                   isEditingExistingIssue, paginationToken, aiVerdicts, aiCalls,
                   config, inputs,
                   retryVars, procs, maintVars>>

NextClassify == Classify \/ ClassifyPlain

SpecClassify == InitClassify /\ [][NextClassify]_vars

\* ======================================================================
\* Classification with verification enabled: what the verifier can answer, in full.
\* ======================================================================
\* Responses of the verifier: a failed candidate fetch, an unparseable text, and parsed
\* objects with confidence 0.74, 0.75, 0.90 and 1.5.
VerifierOpinions ==
    {FetchError, Garbled, Answer(TRUE, 74), Answer(TRUE, AI_THRESHOLD), Answer(FALSE, 90),
     Answer(TRUE, 150)}

VerifyScores == {60, 90}

VerifyAnswers ==
    {[i \in 1..Len(a) |-> [id |-> i, num |-> a[i].num, score |-> a[i].score]] :
        a \in {b \in SeqsUpTo([num : {NoNumber, 2, 3}, score : VerifyScores], MaxCand) :
                 sortedDesc(b)}}

InitVerify ==
    /\ idx = IdleIndex /\ clock = 0 /\ runs = 0
    /\ pc = "classify" /\ exit = "ok" /\ idxAtStart = IdleIndex /\ log = <<>>
    /\ job = Job("check", "issue", MinTextLength)
    /\ existingVectorIds = {} /\ paginationToken = 0
    /\ isEditingExistingIssue \in BOOLEAN
    /\ duplicates = <<>> /\ aiVerdicts = EmptyVerdicts /\ aiCalls = 0
    /\ highSimilarityDuplicates = <<>> /\ mediumSimilarityDuplicates = <<>>
    /\ out = NoOut
    /\ filterWorks = TRUE
    /\ AI_ENABLED = TRUE
    /\ AI_TOPK \in 1..MaxTopK
    /\ SIMILARITY_THRESHOLD = DefaultThreshold
    /\ results \in VerifyAnswers
    /\ opinion \in [1..Len(results) -> VerifierOpinions]
    /\ order \in Perms(Min(AI_TOPK, Len(results)))
    /\ apiCall = <<>> /\ attempt = 0 /\ delay = BaseDelay /\ settled = "returned"
    /\ procs = <<>>
    /\ noMaintenance

NextVerify == Classify

SpecVerify == InitVerify /\ [][NextVerify]_vars

\* ======================================================================
\* retryApiCall alone: one wrapped call, attempt by attempt.
\* ======================================================================
Responses == {Resolves, NoStatus, 404, 429, 499, 500}

\* Every error of the 4xx and 5xx classes is retried.
isRetryable_any(status) == status >= 400

\* error.status === 429 || error.status >= 500
isRetryable(status) == status = 429 \/ status >= 500

attemptKind(r) ==
    IF r = Resolves THEN "ok" ELSE IF isRetryable(r) THEN "transient" ELSE "fatal"

InitRetry ==
    /\ idx = IdleIndex /\ clock = 0 /\ runs = 0
    /\ pc = "retry" /\ exit = "ok" /\ idxAtStart = IdleIndex /\ log = <<>>
    /\ job = Job("none", "issue", 0)
    /\ existingVectorIds = {} /\ paginationToken = 0
    /\ isEditingExistingIssue = FALSE
    /\ duplicates = <<>> /\ aiVerdicts = EmptyVerdicts /\ aiCalls = 0
    /\ highSimilarityDuplicates = <<>> /\ mediumSimilarityDuplicates = <<>>
    /\ out = NoOut
    /\ filterWorks = TRUE /\ AI_ENABLED = FALSE /\ AI_TOPK = DefaultTopK
    /\ SIMILARITY_THRESHOLD = DefaultThreshold
    /\ results = <<>> /\ opinion = <<>> /\ order = <<>>
    /\ apiCall \in [1..MaxRetries -> Responses]
    /\ attempt = 0 /\ delay = BaseDelay /\ settled = "pending"
    /\ procs = <<>>
    /\ noMaintenance

\* One turn of the for loop: the call, and what the catch does with its error.
RetryAttempt ==
    /\ pc = "retry" /\ settled = "pending" /\ attempt < MaxRetries
    /\ attempt' = attempt + 1
    /\ LET r == apiCall[attempt + 1]
       IN IF r = Resolves THEN settled' = "returned" /\ delay' = delay
          ELSE IF attempt = MaxRetries - 1 THEN settled' = "thrown" /\ delay' = delay
          ELSE IF isRetryable(r) THEN settled' = "pending" /\ delay' = delay * 2
          ELSE settled' = "thrown" /\ delay' = delay
    /\ UNCHANGED <<idx, clock, runs, pc, exit, idxAtStart, job, log, locals, config,
                   inputs, apiCall, procs, maintVars>>

NextRetry == RetryAttempt

SpecRetry == InitRetry /\ [][NextRetry]_vars

\* ======================================================================
\* The runs on one issue, one at a time: duplicate check and close cleanup.
\* ======================================================================
MaxRuns == 3        \* runs in one behaviour
PageLimit == 2      \* records in one listing page (limit: 100 in the source)
LookupTopK == 100   \* topK of the metadata-filtered lookup

RunScores == {30, 60, 90}

selfRecords(ix) == {r \in ix : r.num = ISSUE_NUMBER}

idsOf(rs) == {r.id : r \in rs}

\* index.query with filter {issue_number}: at most topK of the matching records; a
\* backend that does not filter on metadata reports no match.
filterAnswers(ix, works) ==
    IF works
    THEN {m \in SUBSET selfRecords(ix) :
             Cardinality(m) = Min(LookupTopK, Cardinality(selfRecords(ix)))}
    ELSE {{}}

\* index.listPaginated: the records in id order after the token, a page at a time;
\* pagination.next is absent (0) on the last page.
listPage(ix, token) ==
    {r \in ix : r.id > token
                /\ Cardinality({q \in ix : q.id > token /\ q.id < r.id}) < PageLimit}

\* A listing that never returns a pagination token.
listNext_stop(ix, token) == 0

listNext(ix, token) ==
    LET page == listPage(ix, token)
    IN IF \E r \in ix : r.id > token /\ r \notin page
       THEN CHOOSE m \in idsOf(page) : \A n \in idsOf(page) : n <= m
       ELSE 0

\* The delete that leaves the records in place.
deleteMany_keep(ix, ids) == ix

\* index.deleteMany(ids).
deleteMany(ix, ids) == {r \in ix : r.id \notin ids}

\* `issue-${ISSUE_NUMBER}-${Date.now()}`: a fresh id at each upsert of a later run.
vectorId(t) == 3 + t

\* index.query answers for the whole index: every record scored, best first; ties
\* come in id order or in reverse id order.
RECURSIVE seqOfIds(_, _)
seqOfIds(ix, asc) ==
    IF ix = {} THEN <<>>
    ELSE LET r == CHOOSE x \in ix : \A y \in ix : IF asc THEN x.id <= y.id ELSE x.id >= y.id
         IN <<r>> \o seqOfIds(ix \ {r}, asc)

byScore(m, s) ==
    LET k == Cardinality({i \in 1..Len(s) : s[i].score >= m.score})
    IN SubSeq(s, 1, k) \o <<m>> \o SubSeq(s, k + 1, Len(s))

RECURSIVE rankMatches(_)
rankMatches(s) ==
    IF s = <<>> THEN <<>>
    ELSE byScore(s[Len(s)], rankMatches(SubSeq(s, 1, Len(s) - 1)))

queryAnswer(ix, scoring, asc) ==
    LET rs == seqOfIds(ix, asc)
    IN rankMatches([i \in 1..Len(rs) |->
                      [id |-> rs[i].id, num |-> rs[i].num, score |-> scoring[rs[i]]]])

\* ----------------------------------------------------------------- the log
Call(op, kind, ok) == [op |-> op, kind |-> kind, ok |-> ok]

\* safeVectorOperation's catch: post the fallback comment (not retried), rethrow.
safeFail(lg, commentOk) ==
    Append(lg, Call("comment", "temporary-service-issue", commentOk))

\* An index call made without retryApiCall that throws: one attempt, and the class
\* of its error ("transient": status 429 or >= 500, "fatal": any other).
ErrorClasses == {"transient", "fatal"}

indexError(lg, op, err) == Append(lg, Call(op, err, FALSE))

\* The run stops at the failed lookup.
afterLookupFailure_abort == "idle"

\* The catch after the lookup: "continuing with basic processing".
afterLookupFailure == "query"

posted(lg) == {i \in 1..Len(lg) : lg[i].op = "comment" /\ lg[i].ok}

Init ==
    /\ idx \in {IdleIndex, FullPageIndex} /\ clock = 0 /\ runs = 0
    /\ pc = "idle" /\ exit = "ok" /\ idxAtStart = idx /\ log = <<>>
    /\ job = Job("none", "issue", 0)
    /\ existingVectorIds = {} /\ paginationToken = 0
    /\ isEditingExistingIssue = FALSE
    /\ duplicates = <<>> /\ aiVerdicts = EmptyVerdicts /\ aiCalls = 0
    /\ highSimilarityDuplicates = <<>> /\ mediumSimilarityDuplicates = <<>>
    /\ out = NoOut
    /\ filterWorks \in BOOLEAN
    /\ AI_ENABLED \in BOOLEAN
    /\ AI_TOPK \in (IF AI_ENABLED THEN 1..MaxTopK ELSE {DefaultTopK})
    /\ SIMILARITY_THRESHOLD = DefaultThreshold
    /\ results = <<>> /\ opinion = <<>> /\ order = <<>>
    /\ apiCall = <<>> /\ attempt = 0 /\ delay = BaseDelay /\ settled = "returned"
    /\ procs = <<>>
    /\ noMaintenance

resetLocals ==
    /\ existingVectorIds' = {} /\ paginationToken' = 0
    /\ isEditingExistingIssue' = FALSE
    /\ duplicates' = <<>> /\ aiVerdicts' = EmptyVerdicts /\ aiCalls' = 0
    /\ highSimilarityDuplicates' = <<>> /\ mediumSimilarityDuplicates' = <<>>
    /\ out' = NoOut

endRun(code) == pc' = "idle" /\ exit' = code

\* ------------------------------------------------------- the duplicate check
\* `${newIssue.title} ${newIssue.body || ""}`.trim().length, for a title and a body
\* that carry no outer white space themselves (0: empty or absent).
textLength(t, b) == IF t = 0 THEN b ELSE IF b = 0 THEN t ELSE t + 1 + b

\* The guard that lets one character fewer through.
tooShort_below9(len) == len < MinTextLength - 1

\* newText.length < 10
tooShort(len) == len < MinTextLength

TitleLengths == {1, 4}
BodyLengths == {0, 4, 5}

isPullRequest_never(pr) == FALSE

\* if (issue.data.pull_request): the subject carries the pull_request field.
isPullRequest(pr) == pr

\* run(): octokit.issues.get under retryApiCall, the pull-request skip, the length test.
CheckFetchIssue ==
    /\ pc = "idle" /\ runs < MaxRuns
    /\ runs' = runs + 1 /\ idxAtStart' = idx /\ log' = <<>>
    /\ resetLocals
    /\ \E fetched \in retryOutcomes, pr \in BOOLEAN, t \in TitleLengths, b \in BodyLengths :
          /\ job' = Job("check", IF pr THEN "pull_request" ELSE "issue", textLength(t, b))
          /\ IF ~fetched THEN endRun("rejected")
             ELSE IF isPullRequest(pr) THEN endRun("ok")
             ELSE IF tooShort(textLength(t, b)) THEN pc' = "short" /\ exit' = "running"
             ELSE pc' = "embed" /\ exit' = "running"
    /\ UNCHANGED <<idx, clock, config, inputs,
                   retryVars, procs, maintVars>>

\* The "Issue Too Short for Analysis" comment: createComment, not retried, not caught.
CheckTooShort ==
    /\ pc = "short"
    /\ \E ok \in BOOLEAN :
          /\ log' = Append(log, Call("comment", "too-short", ok))
          /\ endRun(IF ok THEN "ok" ELSE "rejected")
    /\ UNCHANGED <<idx, clock, runs, idxAtStart, job, locals, config, inputs,
                   retryVars, procs, maintVars>>

\* generateEmbedding: fetch under retryApiCall.  A thrown fetch error carries no
\* status, so it is never retried; an error payload gives the fallback vector.
CheckEmbed ==
    /\ pc = "embed"
    /\ \E res \in {"values", "fallback", "throws"} :
          IF res = "throws"
          THEN log' = Append(log, Call("embed", "network", FALSE)) /\ endRun("rejected")
          ELSE IF res = "fallback"
          THEN /\ log' = Append(log, Call("embed", "error-payload", TRUE))
               /\ pc' = "lookup" /\ exit' = exit
          ELSE log' = log /\ pc' = "lookup" /\ exit' = exit
    /\ UNCHANGED <<idx, clock, runs, idxAtStart, job, locals, config, inputs,
                   retryVars, procs, maintVars>>

\* The metadata-filtered lookup inside safeVectorOperation.
CheckLookupFilter ==
    /\ pc = "lookup"
    /\ \/ \E m \in filterAnswers(idx, filterWorks) :
             /\ existingVectorIds' = idsOf(m)
             /\ IF m # {}
                THEN /\ isEditingExistingIssue' = TRUE
                     /\ pc' = "query"
                ELSE /\ isEditingExistingIssue' = isEditingExistingIssue
                     /\ pc' = "list"
             /\ log' = log
       \/ \E err \in ErrorClasses, cok \in BOOLEAN :
             /\ log' = safeFail(indexError(log, "lookup", err), cok)
             /\ pc' = afterLookupFailure
             /\ UNCHANGED <<existingVectorIds, isEditingExistingIssue>>
    /\ UNCHANGED <<idx, clock, runs, exit, idxAtStart, job, paginationToken, duplicates,
                   aiVerdicts, aiCalls, highSimilarityDuplicates,
                   mediumSimilarityDuplicates, out, config, inputs,
                   retryVars, procs, maintVars>>

\* One page of the list fallback; the flag is set after the last page only.
CheckLookupList ==
    /\ pc = "list"
    /\ \/ LET page == listPage(idx, paginationToken)
              next == listNext(idx, paginationToken)
              found == existingVectorIds \cup idsOf(selfRecords(page))
          IN /\ existingVectorIds' = found
             /\ paginationToken' = next
             /\ IF next # 0
                THEN pc' = "list" /\ isEditingExistingIssue' = isEditingExistingIssue
                ELSE pc' = "query" /\ isEditingExistingIssue' = (Cardinality(found) > 0)
             /\ log' = log
       \/ \E err \in ErrorClasses, cok \in BOOLEAN :
             /\ log' = safeFail(indexError(log, "list", err), cok)
             /\ pc' = afterLookupFailure
             /\ UNCHANGED <<existingVectorIds, isEditingExistingIssue, paginationToken>>
    /\ UNCHANGED <<idx, clock, runs, exit, idxAtStart, job, duplicates,
                   aiVerdicts, aiCalls, highSimilarityDuplicates,
                   mediumSimilarityDuplicates, out, config, inputs,
                   retryVars, procs, maintVars>>

\* The failed similarity query ending the run.
afterQueryFailure_abort == "idle"

\* The catch around the similarity query (lines 522-524) logs and the run goes on to
\* the verification and the tiers with duplicates = [].
afterQueryFailure == "verify"

\* The similarity query inside safeVectorOperation: results, filteredResults, duplicates.
CheckQuery ==
    /\ pc = "query"
    /\ \/ \E scoring \in [idx -> RunScores], asc \in BOOLEAN :
             /\ duplicates' = duplicatesOf(queryAnswer(idx, scoring, asc))
             /\ log' = log
             /\ pc' = "verify"
       \/ \E err \in ErrorClasses, cok \in BOOLEAN :
             /\ log' = safeFail(indexError(log, "query", err), cok)
             /\ duplicates' = duplicates
             /\ pc' = afterQueryFailure
    /\ UNCHANGED <<idx, clock, runs, exit, idxAtStart, job, existingVectorIds,
                   isEditingExistingIssue, paginationToken, aiVerdicts, aiCalls,
                   highSimilarityDuplicates, mediumSimilarityDuplicates, out,
                   config, inputs,
                   retryVars, procs, maintVars>>

\* The verification fan-out (joined by Promise.all), then bands, tier and flags.
CheckVerifyAndClassify ==
    /\ pc = "verify"
    /\ \E opin \in [idsOf(Range(duplicates)) -> Opinions \cup {FetchError}],
          ord \in Perms(Min(AI_TOPK, Len(duplicates))) :
          aiVerdicts' = verdictsOf(duplicates, AI_ENABLED, AI_TOPK, opin, ord)
    /\ aiCalls' = aiCallsOf(duplicates, AI_ENABLED, AI_TOPK)
    /\ highSimilarityDuplicates' = highBand(duplicates, AI_ENABLED, aiVerdicts')
    /\ mediumSimilarityDuplicates' = mediumBand(duplicates, AI_ENABLED, aiVerdicts')
    /\ out' = tierFlags(highSimilarityDuplicates', mediumSimilarityDuplicates',
                        isEditingExistingIssue)
    /\ pc' = "comment"
    /\ UNCHANGED <<idx, clock, runs, exit, idxAtStart, job, log, existingVectorIds,
                   isEditingExistingIssue, paginationToken, duplicates, config, inputs,
                   retryVars, procs, maintVars>>

afterComment ==
    IF out.shouldAutoClose /\ out.duplicateAction = "auto-close" THEN "label"
    ELSE "persist"

\* The comment failure caught, the run going on to the persist block.
afterCommentFailure_continue == "persist"

\* createComment is awaited outside any try: its rejection ends run().
afterCommentFailure == "idle"

\* "Post the comment first": createComment under retryApiCall, not caught.
CheckComment ==
    /\ pc = "comment"
    /\ \E ok \in retryOutcomes :
             /\ log' = Append(log, Call("comment", "classification", ok))
             /\ IF ok THEN pc' = afterComment /\ exit' = exit
                ELSE IF afterCommentFailure = "idle" THEN endRun("rejected")
                ELSE pc' = afterCommentFailure /\ exit' = exit
    /\ UNCHANGED <<idx, clock, runs, idxAtStart, job, locals, config, inputs,
                   retryVars, procs, maintVars>>

\* The catch of the auto-close block: the "Auto-close Failed" comment, its own failure caught.
\* The catch that only logs to the console.
autoCloseFailed_silent(lg, commentOk) == lg

autoCloseFailed(lg, commentOk) ==
    Append(lg, Call("comment", "auto-close-failed", commentOk))

\* addLabels(['duplicate']) under retryApiCall.
CheckLabel ==
    /\ pc = "label"
    /\ \E ok \in retryOutcomes, cok \in retryOutcomes :
          LET lg == Append(log, Call("label", "duplicate", ok))
          IN IF ok THEN log' = lg /\ pc' = "close"
             ELSE log' = autoCloseFailed(lg, cok) /\ pc' = "persist"
    /\ UNCHANGED <<idx, clock, runs, exit, idxAtStart, job, locals, config, inputs,
                   retryVars, procs, maintVars>>

\* issues.update({state: 'closed'}) under retryApiCall.
CheckClose ==
    /\ pc = "close"
    /\ \E ok \in retryOutcomes, cok \in retryOutcomes :
          LET lg == Append(log, Call("update", "closed", ok))
          IN IF ok THEN log' = lg ELSE log' = autoCloseFailed(lg, cok)
    /\ pc' = "persist"
    /\ UNCHANGED <<idx, clock, runs, exit, idxAtStart, job, locals, config, inputs,
                   retryVars, procs, maintVars>>

\* The persist block up to the upsert: skip, or deleteMany of the ids found.
CheckPersist ==
    /\ pc = "persist"
    /\ IF ~out.shouldUpdateVector
       THEN endRun("ok") /\ UNCHANGED <<idx, log>>
       ELSE IF isEditingExistingIssue /\ Cardinality(existingVectorIds) > 0
       THEN \/ /\ idx' = deleteMany(idx, existingVectorIds)
               /\ log' = Append(log, Call("deleteMany", "existing", TRUE))
               /\ pc' = "upsert" /\ exit' = exit
            \/ \E cok \in BOOLEAN :
                  /\ log' = safeFail(Append(log, Call("deleteMany", "existing", FALSE)), cok)
                  /\ endRun("ok") /\ idx' = idx
       ELSE pc' = "upsert" /\ exit' = exit /\ UNCHANGED <<idx, log>>
    /\ UNCHANGED <<clock, runs, idxAtStart, job, locals, config, inputs,
                   retryVars, procs, maintVars>>

\* index.upsert of one record under a fresh id.
CheckUpsert ==
    /\ pc = "upsert"
    /\ \/ /\ idx' = {r \in idx : r.id # vectorId(clock)}
                    \cup {[id |-> vectorId(clock), num |-> ISSUE_NUMBER]}
          /\ clock' = clock + 1
          /\ log' = Append(log, Call("upsert", "issue", TRUE))
       \/ \E cok \in BOOLEAN :
             /\ log' = safeFail(Append(log, Call("upsert", "issue", FALSE)), cok)
             /\ UNCHANGED <<idx, clock>>
    /\ endRun("ok")
    /\ UNCHANGED <<runs, idxAtStart, job, locals, config, inputs,
                   retryVars, procs, maintVars>>

\* --------------------------------------------------------- the close cleanup
\* The catch of cleanupClosedIssue: the "Issue Cleanup Failed" comment under
\* retryApiCall, its own failure caught, then process.exit(1).
cleanupFailed(lg, commentOk) ==
    Append(lg, Call("comment", "cleanup-failed", commentOk))

\* cleanupClosedIssue: octokit.issues.get under retryApiCall, the pull-request skip.
CleanupFetchIssue ==
    /\ pc = "idle" /\ runs < MaxRuns
    /\ runs' = runs + 1 /\ idxAtStart' = idx
    /\ resetLocals
    /\ \E fetched \in retryOutcomes, cok \in retryOutcomes, pr \in BOOLEAN :
          /\ job' = Job("cleanup", IF pr THEN "pull_request" ELSE "issue", 0)
          /\ IF ~fetched
             THEN log' = cleanupFailed(<<>>, cok) /\ endRun("exit1")
             ELSE IF isPullRequest(pr) THEN log' = <<>> /\ endRun("ok")
             ELSE log' = <<>> /\ pc' = "cleanupList" /\ exit' = "running"
    /\ UNCHANGED <<idx, clock, config, inputs,
                   retryVars, procs, maintVars>>

\* index.listPaginated() under retryApiCall: the first page only.
CleanupList ==
    /\ pc = "cleanupList"
    /\ \E ok \in retryOutcomes, cok \in retryOutcomes :
          IF ok
          THEN /\ existingVectorIds' = idsOf(selfRecords(listPage(idx, 0)))
               /\ log' = log
               /\ pc' = IF existingVectorIds' = {} THEN "cleanupComment" ELSE "cleanupDelete"
               /\ exit' = exit
          ELSE /\ existingVectorIds' = existingVectorIds
               /\ log' = cleanupFailed(log, cok)
               /\ endRun("exit1")
    /\ UNCHANGED <<idx, clock, runs, idxAtStart, job, isEditingExistingIssue, paginationToken,
                   duplicates, aiVerdicts, aiCalls, highSimilarityDuplicates,
                   mediumSimilarityDuplicates, out, config, inputs,
                   retryVars, procs, maintVars>>

\* index.deleteMany(vectorsToDelete) under retryApiCall.
CleanupDelete ==
    /\ pc = "cleanupDelete"
    /\ \E ok \in retryOutcomes, cok \in retryOutcomes :
          IF ok
          THEN /\ idx' = deleteMany(idx, existingVectorIds)
               /\ log' = Append(log, Call("deleteMany", "closed", TRUE))
               /\ pc' = "cleanupComment" /\ exit' = exit
          ELSE /\ idx' = idx
               /\ log' = cleanupFailed(Append(log, Call("deleteMany", "closed", FALSE)), cok)
               /\ endRun("exit1")
    /\ UNCHANGED <<clock, runs, idxAtStart, job, locals, config, inputs,
                   retryVars, procs, maintVars>>

\* The "Issue Cleanup Completed" comment under retryApiCall.
CleanupComment ==
    /\ pc = "cleanupComment"
    /\ \E ok \in retryOutcomes, cok \in retryOutcomes :
          LET lg == Append(log, Call("comment", "cleanup-completed", ok))
          IN IF ok THEN log' = lg /\ endRun("ok")
             ELSE log' = cleanupFailed(lg, cok) /\ endRun("exit1")
    /\ UNCHANGED <<idx, clock, runs, idxAtStart, job, locals, config, inputs,
                   retryVars, procs, maintVars>>

\* ------------------------------------------------------ the threshold check
\* scripts/check-duplicates.js: the duplicate check that knows one threshold and no
\* tiers; it looks for the issue's own records on the first listing page only.
BasicTopK == 10     \* topK: 10 of its similarity query

BasicScores == {30, DefaultThreshold}

atLeast(threshold, r) == r.score >= threshold

\* results, filteredResults and duplicates: the matches of the other issues whose
\* score is at least the threshold, in the order of the answer.
thresholdDuplicatesOf(rs, threshold) ==
    MapCandidates(SelectSeq(filteredResultsOf(rs), LAMBDA r : atLeast(threshold, r)))

\* shouldUpdateVector: false exactly when a duplicate was found; nothing is closed.
thresholdOut(dups) == [NoOut EXCEPT !.shouldUpdateVector = (Len(dups) = 0)]

\* run(): octokit.issues.get under retryApiCall, the pull-request skip, the length test.
BasicFetchIssue ==
    /\ pc = "idle" /\ runs < MaxRuns
    /\ runs' = runs + 1 /\ idxAtStart' = idx /\ log' = <<>>
    /\ resetLocals
    /\ \E fetched \in retryOutcomes, pr \in BOOLEAN, t \in TitleLengths, b \in BodyLengths :
          /\ job' = Job("check-duplicates", IF pr THEN "pull_request" ELSE "issue",
                        textLength(t, b))
          /\ IF ~fetched THEN endRun("rejected")
             ELSE IF isPullRequest(pr) THEN endRun("ok")
             ELSE IF tooShort(textLength(t, b)) THEN pc' = "basicShort" /\ exit' = "running"
             ELSE pc' = "basicEmbed" /\ exit' = "running"
    /\ UNCHANGED <<idx, clock, config, inputs,
                   retryVars, procs, maintVars>>

\* The "Issue Too Short for Analysis" comment: createComment, not retried, not caught.
BasicTooShort ==
    /\ pc = "basicShort"
    /\ \E ok \in BOOLEAN :
          /\ log' = Append(log, Call("comment", "too-short", ok))
          /\ endRun(IF ok THEN "ok" ELSE "rejected")
    /\ UNCHANGED <<idx, clock, runs, idxAtStart, job, locals, config, inputs,
                   retryVars, procs, maintVars>>

\* embeddings.embedQuery: fetch under retryApiCall.  A thrown fetch error carries no
\* status, so it is never retried; an error payload gives the fallback vector.
BasicEmbed ==
    /\ pc = "basicEmbed"
    /\ \E res \in {"values", "fallback", "throws"} :
          IF res = "throws"
          THEN log' = Append(log, Call("embed", "network", FALSE)) /\ endRun("rejected")
          ELSE IF res = "fallback"
          THEN /\ log' = Append(log, Call("embed", "error-payload", TRUE))
               /\ pc' = "basicLookup" /\ exit' = exit
          ELSE log' = log /\ pc' = "basicLookup" /\ exit' = exit
    /\ UNCHANGED <<idx, clock, runs, idxAtStart, job, locals, config, inputs,
                   retryVars, procs, maintVars>>

\* One index.listPaginated() inside safeVectorOperation: the first page, no token
\* followed; the catch around it lets the run go on.
BasicLookup ==
    /\ pc = "basicLookup"
    /\ \/ LET found == idsOf(selfRecords(listPage(idx, 0)))
          IN /\ existingVectorIds' = found
             /\ isEditingExistingIssue' = (Cardinality(found) > 0)
             /\ log' = log
       \/ \E err \in ErrorClasses, cok \in BOOLEAN :
             /\ log' = safeFail(indexError(log, "list", err), cok)
             /\ UNCHANGED <<existingVectorIds, isEditingExistingIssue>>
    /\ pc' = "basicQuery"
    /\ UNCHANGED <<idx, clock, runs, exit, idxAtStart, job, paginationToken, duplicates,
                   aiVerdicts, aiCalls, highSimilarityDuplicates,
                   mediumSimilarityDuplicates, out, config, inputs,
                   retryVars, procs, maintVars>>

\* The similarity query inside safeVectorOperation, and the decision that follows it.
BasicQuery ==
    /\ pc = "basicQuery"
    /\ \/ \E scoring \in [idx -> BasicScores], asc \in BOOLEAN :
             /\ duplicates' = thresholdDuplicatesOf(
                                  topKSlice(queryAnswer(idx, scoring, asc), BasicTopK),
                                  SIMILARITY_THRESHOLD)
             /\ log' = log
       \/ \E err \in ErrorClasses, cok \in BOOLEAN :
             /\ log' = safeFail(indexError(log, "query", err), cok)
             /\ duplicates' = duplicates
    /\ out' = thresholdOut(duplicates')
    /\ pc' = "basicComment"
    /\ UNCHANGED <<idx, clock, runs, exit, idxAtStart, job, existingVectorIds,
                   isEditingExistingIssue, paginationToken, aiVerdicts, aiCalls,
                   highSimilarityDuplicates, mediumSimilarityDuplicates,
                   config, inputs,
                   retryVars, procs, maintVars>>

\* createComment under retryApiCall, not caught; then the branch on shouldUpdateVector.
BasicComment ==
    /\ pc = "basicComment"
    /\ \E ok \in retryOutcomes :
          /\ log' = Append(log, Call("comment", "classification", ok))
          /\ IF ~ok THEN endRun("rejected")
             ELSE IF ~out.shouldUpdateVector THEN endRun("ok")
             ELSE IF isEditingExistingIssue /\ Cardinality(existingVectorIds) > 0
             THEN pc' = "basicDelete" /\ exit' = exit
             ELSE pc' = "basicUpsert" /\ exit' = exit
    /\ UNCHANGED <<idx, clock, runs, idxAtStart, job, locals, config, inputs,
                   retryVars, procs, maintVars>>

\* index.deleteMany(existingVectorIds) of an edit, inside safeVectorOperation.
BasicDelete ==
    /\ pc = "basicDelete"
    /\ \/ /\ idx' = deleteMany(idx, existingVectorIds)
          /\ log' = Append(log, Call("deleteMany", "existing", TRUE))
          /\ pc' = "basicUpsert" /\ exit' = exit
       \/ \E cok \in BOOLEAN :
             /\ log' = safeFail(Append(log, Call("deleteMany", "existing", FALSE)), cok)
             /\ endRun("ok") /\ idx' = idx
    /\ UNCHANGED <<clock, runs, idxAtStart, job, locals, config, inputs,
                   retryVars, procs, maintVars>>

\* index.upsert of one record under a fresh id; its failure is caught and logged.
BasicUpsert ==
    /\ pc = "basicUpsert"
    /\ \/ /\ idx' = {r \in idx : r.id # vectorId(clock)}
                    \cup {[id |-> vectorId(clock), num |-> ISSUE_NUMBER]}
          /\ clock' = clock + 1
          /\ log' = Append(log, Call("upsert", "issue", TRUE))
       \/ \E cok \in BOOLEAN :
             /\ log' = safeFail(Append(log, Call("upsert", "issue", FALSE)), cok)
             /\ UNCHANGED <<idx, clock>>
    /\ endRun("ok")
    /\ UNCHANGED <<runs, idxAtStart, job, locals, config, inputs,
                   retryVars, procs, maintVars>>

\* ------------------------------------------------- the cleanup of one issue
\* cleanup-specific-issue.js: no tracker call and no comment; existingVectorIds
\* stands for its vectorsToDelete.
HelpFlags == {"--help", "-h"}

\* args.includes('--help') || args.includes('-h'): process.exit(0) before any work.
helpAsked(a) == "--help" \in a \/ "-h" \in a

\* The arguments, then deleteIssueVectors() up to its first index call.
SpecificStart ==
    /\ pc = "idle" /\ runs < MaxRuns
    /\ runs' = runs + 1 /\ idxAtStart' = idx /\ log' = <<>>
    /\ resetLocals
    /\ job' = Job("cleanup-specific", "issue", 0)
    /\ \E a \in SUBSET HelpFlags, given \in BOOLEAN :
          IF helpAsked(a) THEN endRun("ok")
          ELSE IF ~given THEN endRun("exit1")
          ELSE pc' = "specificLookup" /\ exit' = "running"
    /\ UNCHANGED <<idx, clock, config, inputs,
                   retryVars, procs, maintVars>>

\* index.query with filter {issue_number}, topK 100; a throw ends in process.exit(1).
SpecificLookup ==
    /\ pc = "specificLookup"
    /\ \/ \E m \in filterAnswers(idx, filterWorks) :
             /\ existingVectorIds' = idsOf(m)
             /\ pc' = IF m # {} THEN "specificDelete" ELSE "specificList"
             /\ exit' = exit /\ log' = log
       \/ \E err \in ErrorClasses :
             /\ log' = indexError(log, "lookup", err)
             /\ existingVectorIds' = existingVectorIds
             /\ endRun("exit1")
    /\ UNCHANGED <<idx, clock, runs, idxAtStart, job, isEditingExistingIssue,
                   paginationToken, duplicates, aiVerdicts, aiCalls,
                   highSimilarityDuplicates, mediumSimilarityDuplicates, out,
                   config, inputs, retryVars, procs, maintVars>>

\* One page of the do-while listing; after the last page, "Nothing to delete" or on
\* to the delete.
SpecificList ==
    /\ pc = "specificList"
    /\ \/ LET page == listPage(idx, paginationToken)
              next == listNext(idx, paginationToken)
              found == existingVectorIds \cup idsOf(selfRecords(page))
          IN /\ existingVectorIds' = found
             /\ paginationToken' = next
             /\ IF next # 0 THEN pc' = "specificList" /\ exit' = exit
                ELSE IF found = {} THEN endRun("ok")
                ELSE pc' = "specificDelete" /\ exit' = exit
             /\ log' = log
       \/ \E err \in ErrorClasses :
             /\ log' = indexError(log, "list", err)
             /\ UNCHANGED <<existingVectorIds, paginationToken>>
             /\ endRun("exit1")
    /\ UNCHANGED <<idx, clock, runs, idxAtStart, job, isEditingExistingIssue,
                   duplicates, aiVerdicts, aiCalls,
                   highSimilarityDuplicates, mediumSimilarityDuplicates, out,
                   config, inputs, retryVars, procs, maintVars>>

\* index.deleteMany(vectorsToDelete), not retried.
SpecificDelete ==
    /\ pc = "specificDelete"
    /\ \/ /\ idx' = deleteMany(idx, existingVectorIds)
          /\ log' = Append(log, Call("deleteMany", "specific", TRUE))
          /\ endRun("ok")
       \/ /\ idx' = idx
          /\ log' = Append(log, Call("deleteMany", "specific", FALSE))
          /\ endRun("exit1")
    /\ UNCHANGED <<clock, runs, idxAtStart, job, locals, config, inputs,
                   retryVars, procs, maintVars>>

Next ==
    \/ CheckFetchIssue \/ CheckTooShort \/ CheckEmbed
    \/ CheckLookupFilter \/ CheckLookupList \/ CheckQuery
    \/ CheckVerifyAndClassify \/ CheckComment \/ CheckLabel \/ CheckClose
    \/ CheckPersist \/ CheckUpsert
    \/ CleanupFetchIssue \/ CleanupList \/ CleanupDelete \/ CleanupComment
    \/ BasicFetchIssue \/ BasicTooShort \/ BasicEmbed \/ BasicLookup \/ BasicQuery
    \/ BasicComment \/ BasicDelete \/ BasicUpsert
    \/ SpecificStart \/ SpecificLookup \/ SpecificList \/ SpecificDelete

Spec == Init /\ [][Next]_vars

\* ======================================================================
\* Runs in flight together on one index: each run is its own process (one workflow
\* job per issue event); the index calls are the only steps that touch shared state.
\* ======================================================================
MaxProcs == 2       \* runs in flight together

Procs == 1..MaxProcs
ConcIssues == ISSUE_NUMBER..MaxProcs

\* A lookup that takes every record for the issue's own.
recordsOf_any(ix, n) == ix

\* The records whose metadata.issue_number is n.
recordsOf(ix, n) == {r \in ix : r.num = n}

\* `issue-${ISSUE_NUMBER}-${Date.now()}`, ordered as the listing orders ids.
concId(n, t) == 10 * n + 1 + t

firstRecord(n) == [id |-> 10 * n, num |-> n]

\* A run in flight: now is the Date.now() it read for its vector id, seq the rank of
\* its upsert among the upserts the index has applied, failed whether one of its
\* index calls threw.
Proc(script, issue) ==
    [script |-> script, issue |-> issue,
     pc |-> IF script = "check" THEN "lookup" ELSE "cleanupList",
     ids |-> {}, editing |-> FALSE, token |-> 0, wrote |-> 0,
     now |-> 0, seq |-> 0, failed |-> FALSE]

sequentialVars == <<runs, pc, exit, idxAtStart, job, log, locals, AI_ENABLED, AI_TOPK,
                    SIMILARITY_THRESHOLD,
                    inputs, retryVars, maintVars>>

InitConcurrent ==
    /\ idx \in SUBSET {firstRecord(n) : n \in ConcIssues}
    /\ clock = 0 /\ runs = 0
    /\ pc = "concurrent" /\ exit = "ok" /\ idxAtStart = idx /\ log = <<>>
    /\ job = Job("none", "issue", 0)
    /\ existingVectorIds = {} /\ paginationToken = 0
    /\ isEditingExistingIssue = FALSE
    /\ duplicates = <<>> /\ aiVerdicts = EmptyVerdicts /\ aiCalls = 0
    /\ highSimilarityDuplicates = <<>> /\ mediumSimilarityDuplicates = <<>>
    /\ out = NoOut
    /\ filterWorks \in BOOLEAN /\ AI_ENABLED = FALSE /\ AI_TOPK = DefaultTopK
    /\ SIMILARITY_THRESHOLD = DefaultThreshold
    /\ results = <<>> /\ opinion = <<>> /\ order = <<>>
    /\ apiCall = <<>> /\ attempt = 0 /\ delay = BaseDelay /\ settled = "returned"
    /\ procs \in {[p \in Procs |-> Proc(f[p].script, f[p].issue)] :
                    f \in [Procs -> [script : {"check", "cleanup"}, issue : ConcIssues]]}
    /\ noMaintenance

\* Where run p stands after its lookup threw: the catch lets it go on.
lookupFailed(r) ==
    [r EXCEPT !.failed = TRUE,
              !.pc = IF afterLookupFailure = "query" THEN "classify" ELSE "done"]

\* Date.now() as a run reads it: the time of the last reading, or later.
readings(t) == {t, t + 1}

upsertsApplied(ps) == Cardinality({q \in DOMAIN ps : ps[q].seq # 0})

\* The filtered lookup of run p: index.query with filter {issue_number}; when it
\* throws, no id is known and the flag stays false.
ConcLookup(p) ==
    /\ procs[p].pc = "lookup"
    /\ \/ LET m == IF filterWorks THEN recordsOf(idx, procs[p].issue) ELSE {}
          IN procs' = [procs EXCEPT ![p].ids = idsOf(m),
                                    ![p].editing = (m # {}),
                                    ![p].pc = IF m # {} THEN "classify" ELSE "list"]
       \/ procs' = [procs EXCEPT ![p] = lookupFailed(@)]
    /\ UNCHANGED <<idx, clock, filterWorks, sequentialVars>>

\* One page of the list fallback of run p; when the call throws, the ids of the
\* earlier pages stay and the flag stays false.
ConcList(p) ==
    /\ procs[p].pc = "list"
    /\ \/ LET page == listPage(idx, procs[p].token)
              next == listNext(idx, procs[p].token)
              found == procs[p].ids \cup idsOf(recordsOf(page, procs[p].issue))
          IN procs' = [procs EXCEPT ![p].ids = found,
                                    ![p].token = next,
                                    ![p].editing = IF next # 0 THEN @ ELSE found # {},
                                    ![p].pc = IF next # 0 THEN "list" ELSE "classify"]
       \/ procs' = [procs EXCEPT ![p] = lookupFailed(@)]
    /\ UNCHANGED <<idx, clock, filterWorks, sequentialVars>>

\* Query, tier and comment of run p change no shared state; the tier decides whether
\* the run persists (auto-close does not), the scores being any.  A similarity query
\* that throws is caught: the run decides unique on no candidate and persists.  The
\* classification comment that fails ends the run.  A run that inserts without
\* deleting reads Date.now() for its id before it sends the upsert.
ConcClassify(p) ==
    /\ procs[p].pc = "classify"
    /\ \E queryOk \in BOOLEAN, commentOk \in retryOutcomes, shouldUpdateVector \in BOOLEAN :
          /\ ~queryOk => shouldUpdateVector
          /\ LET r == [procs[p] EXCEPT !.failed = @ \/ ~queryOk]
             IN IF ~commentOk \/ ~shouldUpdateVector
                THEN procs' = [procs EXCEPT ![p] = [r EXCEPT !.pc = "done"]]
                     /\ clock' = clock
                ELSE IF r.editing /\ r.ids # {}
                THEN procs' = [procs EXCEPT ![p] = [r EXCEPT !.pc = "delete"]]
                     /\ clock' = clock
                ELSE \E t \in readings(clock) :
                        /\ procs' = [procs EXCEPT ![p] = [r EXCEPT !.pc = "upsert",
                                                                   !.now = t]]
                        /\ clock' = t
    /\ UNCHANGED <<idx, filterWorks, sequentialVars>>

\* index.deleteMany(existingVectorIds) of run p as the index applies it; when the
\* call throws, safeVectorOperation rethrows and the upsert is skipped.
ConcDelete(p) ==
    /\ procs[p].pc = "delete"
    /\ \/ /\ idx' = deleteMany(idx, procs[p].ids)
          /\ procs' = [procs EXCEPT ![p].pc = "deleted"]
       \/ /\ procs' = [procs EXCEPT ![p].pc = "done", ![p].failed = TRUE]
          /\ idx' = idx
    /\ UNCHANGED <<clock, filterWorks, sequentialVars>>

\* The answer of deleteMany reaches run p, which reads Date.now() for its vector id.
ConcStamp(p) ==
    /\ procs[p].pc = "deleted"
    /\ \E t \in readings(clock) :
          /\ procs' = [procs EXCEPT ![p].pc = "upsert", ![p].now = t]
          /\ clock' = t
    /\ UNCHANGED <<idx, filterWorks, sequentialVars>>

\* index.upsert of run p, applied by the index under the id the run made from its
\* issue number and the time it read; when the call throws nothing is written.
ConcUpsert(p) ==
    /\ procs[p].pc = "upsert"
    /\ \/ LET id == concId(procs[p].issue, procs[p].now)
          IN /\ idx' = {r \in idx : r.id # id} \cup {[id |-> id, num |-> procs[p].issue]}
             /\ procs' = [procs EXCEPT ![p].pc = "done", ![p].wrote = id,
                                       ![p].seq = upsertsApplied(procs) + 1]
       \/ /\ procs' = [procs EXCEPT ![p].pc = "done", ![p].failed = TRUE]
          /\ idx' = idx
    /\ UNCHANGED <<clock, filterWorks, sequentialVars>>

\* index.listPaginated() of close cleanup p under retryApiCall: the first page; when
\* it throws, the catch of cleanupClosedIssue ends the run with process.exit(1).
ConcCleanupList(p) ==
    /\ procs[p].pc = "cleanupList"
    /\ \E ok \in retryOutcomes :
          IF ok
          THEN LET found == idsOf(recordsOf(listPage(idx, 0), procs[p].issue))
               IN procs' = [procs EXCEPT ![p].ids = found,
                                         ![p].pc = IF found = {} THEN "done"
                                                   ELSE "cleanupDelete"]
          ELSE procs' = [procs EXCEPT ![p].pc = "done", ![p].failed = TRUE]
    /\ UNCHANGED <<idx, clock, filterWorks, sequentialVars>>

\* index.deleteMany(vectorsToDelete) of close cleanup p under retryApiCall.
ConcCleanupDelete(p) ==
    /\ procs[p].pc = "cleanupDelete"
    /\ \E ok \in retryOutcomes :
          IF ok
          THEN /\ idx' = deleteMany(idx, procs[p].ids)
               /\ procs' = [procs EXCEPT ![p].pc = "done"]
          ELSE /\ idx' = idx
               /\ procs' = [procs EXCEPT ![p].pc = "done", ![p].failed = TRUE]
    /\ UNCHANGED <<clock, filterWorks, sequentialVars>>

NextConcurrent ==
    \E p \in Procs :
        \/ ConcLookup(p) \/ ConcList(p) \/ ConcClassify(p) \/ ConcDelete(p)
        \/ ConcStamp(p) \/ ConcUpsert(p) \/ ConcCleanupList(p) \/ ConcCleanupDelete(p)

SpecConcurrent == InitConcurrent /\ [][NextConcurrent]_vars

\* ======================================================================
\* The maintenance scripts, run by an operator from the command line:
\* cleanup-duplicates.js (one vector per issue) and clear-all-vectors.js.
\* ======================================================================
MaxVectors == 4  \* the largest index a maintenance script meets
DedupTopK == 3   \* stands for topK: 1000 of the de-duplication query
DedupBatch == 1  \* stands for batchSize = 100
ClearTopK == 3   \* stands for topK: 10000 of the clearing fallback query
ClearBatch == 2  \* stands for batchSize = 1000
MaxIssue == 2    \* issue numbers of the vectors
MaxStamp == 2    \* distinct Date.now() suffixes

\* A vector id is `issue-N` (stamp NoStamp) or `issue-N-<13-digit Date.now()>`.
NoStamp == 0
VectorIds == [issue : 1..MaxIssue, stamp : NoStamp..MaxStamp]

\* /-\d{13}/.test(id)
hasTimestamp(id) == id.stamp # NoStamp

\* a.localeCompare(b) on ids: the issue part first; an id that is a prefix of the
\* other comes first; equal-length digit runs compare as numbers.
localeCompare(a, b) ==
    IF a.issue # b.issue THEN (IF a.issue < b.issue THEN -1 ELSE 1)
    ELSE IF a.stamp = b.stamp THEN 0
    ELSE IF a.stamp < b.stamp THEN -1 ELSE 1

\* The comparator of vectors.sort: clean ids first, then alphabetical.
preferClean(a, b) ==
    IF ~hasTimestamp(a.id) /\ hasTimestamp(b.id) THEN -1
    ELSE IF hasTimestamp(a.id) /\ ~hasTimestamp(b.id) THEN 1
    ELSE localeCompare(a.id, b.id)

\* Array.prototype.sort with that comparator (stable).
RECURSIVE insertVector(_, _)
insertVector(v, s) ==
    IF s = <<>> THEN <<v>>
    ELSE IF preferClean(v, Head(s)) <= 0 THEN <<v>> \o s
    ELSE <<Head(s)>> \o insertVector(v, Tail(s))

RECURSIVE sortVectors(_)
sortVectors(s) ==
    IF s = <<>> THEN <<>>
    ELSE insertVector(s[Len(s)], sortVectors(SubSeq(s, 1, Len(s) - 1)))

\* The keys of vectorsByIssue in insertion order: the truthy issue_number of each
\* match, at its first appearance.
RECURSIVE issueKeys(_)
issueKeys(m) ==
    IF m = <<>> THEN <<>>
    ELSE LET before == issueKeys(SubSeq(m, 1, Len(m) - 1))
             n == m[Len(m)].num
         IN IF n = NoNumber \/ n \in Range(before) THEN before ELSE Append(before, n)

groupOf(m, n) == SelectSeq(m, LAMBDA v : v.num = n)

toKeep(group) == IF Len(group) = 1 THEN <<group[1]>> ELSE <<sortVectors(group)[1]>>

toDelete(group) ==
    IF Len(group) = 1 THEN <<>>
    ELSE LET rest == Tail(sortVectors(group)) IN [k \in 1..Len(rest) |-> rest[k].id]

RECURSIVE keepPlan(_, _)
keepPlan(m, keys) ==
    IF keys = <<>> THEN <<>>
    ELSE toKeep(groupOf(m, Head(keys))) \o keepPlan(m, Tail(keys))

RECURSIVE deletePlan(_, _)
deletePlan(m, keys) ==
    IF keys = <<>> THEN <<>>
    ELSE toDelete(groupOf(m, Head(keys))) \o deletePlan(m, Tail(keys))

\* index.query with a constant probe vector: the topK nearest records, which for an
\* index larger than topK is some topK of them, in the order of their scores.
orderings(S) ==
    {s \in [1..Cardinality(S) -> S] : \A j, k \in 1..Cardinality(S) : j # k => s[j] # s[k]}

queryAll(ix, topK) ==
    UNION {orderings(S) : S \in {T \in SUBSET ix : Cardinality(T) = Min(topK, Cardinality(ix))}}

wantsHelp(a) == "--help" \in a \/ "-h" \in a

forced_always(a) == TRUE

forced(a) == "--force" \in a

Flags == {"--force", "--help", "-h"}

Scripts == {"cleanup-duplicates", "clear-all-vectors"}

batchSize(script) == IF script = "cleanup-duplicates" THEN DedupBatch ELSE ClearBatch

VectorRecords == {v \in [id : VectorIds, num : NoNumber..MaxIssue] :
                     v.num \in {NoNumber, v.id.issue}}

InitMaintenance ==
    /\ vectors \in {ix \in SUBSET VectorRecords :
                       /\ Cardinality(ix) <= MaxVectors
                       /\ \A v, w \in ix : v.id = w.id => v = w}
    /\ args \in SUBSET Flags
    /\ \E script \in Scripts : job = Job(script, "index", 0)
    /\ pc = "args" /\ exit = "ok" /\ log = <<>>
    /\ allVectors = <<>> /\ vectorsToDelete = <<>> /\ vectorsToKeep = <<>>
    /\ deleted = 0 /\ batchStart = 0
    /\ idx = {} /\ idxAtStart = vectors
    /\ clock = 0 /\ runs = 0
    /\ existingVectorIds = {} /\ paginationToken = 0
    /\ isEditingExistingIssue = FALSE
    /\ duplicates = <<>> /\ aiVerdicts = EmptyVerdicts /\ aiCalls = 0
    /\ highSimilarityDuplicates = <<>> /\ mediumSimilarityDuplicates = <<>>
    /\ out = NoOut
    /\ filterWorks = TRUE /\ AI_ENABLED = FALSE /\ AI_TOPK = DefaultTopK
    /\ SIMILARITY_THRESHOLD = DefaultThreshold
    /\ results = <<>> /\ opinion = <<>> /\ order = <<>>
    /\ apiCall = <<>> /\ attempt = 0 /\ delay = BaseDelay /\ settled = "returned"
    /\ procs = <<>>

otherVars == <<idx, clock, runs, idxAtStart, job, locals, config, inputs, retryVars,
               procs, args>>

\* The argument handling at the foot of both scripts: --help and a missing --force
\* both end in process.exit(0) before the work function is called.
MaintArgs ==
    /\ pc = "args"
    /\ IF wantsHelp(args) \/ ~forced(args)
       THEN pc' = "done"
       ELSE pc' = IF job.script = "cleanup-duplicates" THEN "fetch" ELSE "stats"
    /\ UNCHANGED <<exit, log, vectors, allVectors, vectorsToDelete, vectorsToKeep,
                   deleted, batchStart, otherVars>>

\* cleanupDuplicates up to the batch loop: fetch, group, choose.
DedupFetch ==
    /\ pc = "fetch"
    /\ \/ /\ log' = Append(log, Call("query", "error", FALSE))
          /\ pc' = "done" /\ exit' = "exit1"
          /\ UNCHANGED <<allVectors, vectorsToDelete, vectorsToKeep>>
       \/ \E m \in queryAll(vectors, DedupTopK) :
            /\ log' = Append(log, Call("query", "ok", TRUE))
            /\ allVectors' = m
            /\ vectorsToKeep' = keepPlan(m, issueKeys(m))
            /\ vectorsToDelete' = deletePlan(m, issueKeys(m))
            /\ pc' = IF deletePlan(m, issueKeys(m)) = <<>> THEN "done" ELSE "batch"
            /\ exit' = exit
    /\ UNCHANGED <<vectors, deleted, batchStart, otherVars>>

\* One turn of the batch loop of either script: a failed deleteMany is logged and the
\* loop goes on.
MaintBatch ==
    /\ pc = "batch"
    /\ LET size == batchSize(job.script)
           batch == SubSeq(vectorsToDelete, batchStart + 1,
                           Min(batchStart + size, Len(vectorsToDelete)))
       IN \E ok \in BOOLEAN :
            /\ log' = Append(log, Call("deleteMany", IF ok THEN "ok" ELSE "error", ok))
            /\ vectors' = IF ok THEN deleteMany(vectors, Range(batch)) ELSE vectors
            /\ deleted' = IF ok THEN deleted + Len(batch) ELSE deleted
            /\ batchStart' = batchStart + size
            /\ pc' = IF batchStart + size < Len(vectorsToDelete) THEN "batch" ELSE "verify"
    /\ UNCHANGED <<exit, allVectors, vectorsToDelete, vectorsToKeep, otherVars>>

\* describeIndexStats after the deletions: the count is only reported.
MaintVerify ==
    /\ pc = "verify"
    /\ \E ok \in BOOLEAN :
         /\ log' = Append(log, Call("describeIndexStats", IF ok THEN "ok" ELSE "error", ok))
         /\ exit' = IF ok THEN exit ELSE "exit1"
    /\ pc' = "done"
    /\ UNCHANGED <<vectors, allVectors, vectorsToDelete, vectorsToKeep, deleted,
                   batchStart, otherVars>>

\* clearAllVectors: the initial describeIndexStats.
ClearStats ==
    /\ pc = "stats"
    /\ \E ok \in BOOLEAN :
         /\ log' = Append(log, Call("describeIndexStats", IF ok THEN "ok" ELSE "error", ok))
         /\ IF ~ok THEN pc' = "done" /\ exit' = "exit1"
            ELSE IF Cardinality(vectors) = 0 THEN pc' = "done" /\ exit' = exit
            ELSE pc' = "deleteAll" /\ exit' = exit
    /\ UNCHANGED <<vectors, allVectors, vectorsToDelete, vectorsToKeep, deleted,
                   batchStart, otherVars>>

\* index.deleteAll(); when it throws, the fallback fetches the ids to delete.
ClearDeleteAll ==
    /\ pc = "deleteAll"
    /\ \E ok \in BOOLEAN :
         /\ log' = Append(log, Call("deleteAll", IF ok THEN "ok" ELSE "error", ok))
         /\ vectors' = IF ok THEN {} ELSE vectors
         /\ pc' = IF ok THEN "verify" ELSE "clearFetch"
    /\ UNCHANGED <<exit, allVectors, vectorsToDelete, vectorsToKeep, deleted,
                   batchStart, otherVars>>

ClearFetch ==
    /\ pc = "clearFetch"
    /\ \/ /\ log' = Append(log, Call("query", "error", FALSE))
          /\ pc' = "done" /\ exit' = "exit1"
          /\ UNCHANGED <<allVectors, vectorsToDelete>>
       \/ \E m \in queryAll(vectors, ClearTopK) :
            /\ log' = Append(log, Call("query", "ok", TRUE))
            /\ allVectors' = m
            /\ vectorsToDelete' = [k \in 1..Len(m) |-> m[k].id]
            /\ pc' = IF Len(m) > 0 THEN "batch" ELSE "verify"
            /\ exit' = exit
    /\ UNCHANGED <<vectors, vectorsToKeep, deleted, batchStart, otherVars>>

NextMaintenance ==
    \/ MaintArgs
    \/ DedupFetch
    \/ MaintBatch
    \/ MaintVerify
    \/ ClearStats
    \/ ClearDeleteAll
    \/ ClearFetch

SpecMaintenance == InitMaintenance /\ [][NextMaintenance]_vars

\* ======================================================================
\* The duplicate check run again on the same issue: one run after the other, the
\* same answer of the similarity query for the other issues whenever the query
\* answers, the same answers of the verifier, and no writer to the index but the
\* runs themselves.
\* ======================================================================
Reruns == 2

\* A run of the repeated check: queried tells that its similarity query answered.
Rerun == [pc |-> "lookup", ids |-> {}, editing |-> FALSE, token |-> 0, failed |-> FALSE,
          queried |-> FALSE, out |-> NoOut]

InitRepeat ==
    /\ idx \in {IdleIndex, IdleIndex \cup {[id |-> vectorId(0), num |-> ISSUE_NUMBER]}}
    /\ clock = 1 /\ runs = 0
    /\ pc = "repeat" /\ exit = "ok" /\ idxAtStart = idx /\ log = <<>>
    /\ job = Job("check", "issue", MinTextLength)
    /\ existingVectorIds = {} /\ paginationToken = 0
    /\ isEditingExistingIssue = FALSE
    /\ duplicates = <<>> /\ aiVerdicts = EmptyVerdicts /\ aiCalls = 0
    /\ highSimilarityDuplicates = <<>> /\ mediumSimilarityDuplicates = <<>>
    /\ out = NoOut
    /\ filterWorks \in BOOLEAN
    /\ AI_ENABLED \in BOOLEAN
    /\ AI_TOPK \in (IF AI_ENABLED THEN 1..MaxTopK ELSE {DefaultTopK})
    /\ SIMILARITY_THRESHOLD = DefaultThreshold
    /\ results \in Answers
    /\ opinion \in (IF AI_ENABLED THEN [1..Len(results) -> Opinions]
                    ELSE {[i \in 1..Len(results) |-> Garbled]})
    /\ order \in (IF AI_ENABLED THEN Perms(Min(AI_TOPK, Len(results))) ELSE {<<>>})
    /\ apiCall = <<>> /\ attempt = 0 /\ delay = BaseDelay /\ settled = "returned"
    /\ procs = [p \in 1..Reruns |-> Rerun]
    /\ noMaintenance

repeatFrame == <<runs, pc, exit, idxAtStart, job, log, locals, config, inputs, retryVars,
                 maintVars>>

\* The filtered lookup of run p, which starts when the run before it has ended; a
\* call that throws leaves the flag false and the run goes on.
RepeatLookup(p) ==
    /\ pc = "repeat" /\ procs[p].pc = "lookup"
    /\ IF p = 1 THEN TRUE ELSE procs[p - 1].pc = "done"
    /\ \/ \E m \in filterAnswers(idx, filterWorks) :
             procs' = [procs EXCEPT ![p].ids = idsOf(m),
                                    ![p].editing = (m # {}),
                                    ![p].pc = IF m # {} THEN "classify" ELSE "list"]
       \/ procs' = [procs EXCEPT ![p].failed = TRUE,
                                 ![p].pc = IF afterLookupFailure = "query"
                                           THEN "classify" ELSE "done"]
    /\ UNCHANGED <<idx, clock, repeatFrame>>

\* One page of the list fallback of run p; a page that throws leaves the ids of the
\* earlier pages and the flag false.
RepeatList(p) ==
    /\ pc = "repeat" /\ procs[p].pc = "list"
    /\ \/ LET page == listPage(idx, procs[p].token)
              next == listNext(idx, procs[p].token)
              found == procs[p].ids \cup idsOf(selfRecords(page))
          IN procs' = [procs EXCEPT ![p].ids = found,
                                    ![p].token = next,
                                    ![p].editing = IF next # 0 THEN @
                                                   ELSE Cardinality(found) > 0,
                                    ![p].pc = IF next # 0 THEN "list" ELSE "classify"]
       \/ procs' = [procs EXCEPT ![p].failed = TRUE,
                                 ![p].pc = IF afterLookupFailure = "query"
                                           THEN "classify" ELSE "done"]
    /\ UNCHANGED <<idx, clock, repeatFrame>>

\* The similarity query, then candidates, fan-out, bands, tier and flags of run p; a
\* query that throws is caught and the run decides on no candidate.
RepeatClassify(p) ==
    /\ pc = "repeat" /\ procs[p].pc = "classify"
    /\ \/ procs' = [procs EXCEPT ![p].out = decide(results, procs[p].editing, AI_ENABLED,
                                                   AI_TOPK, opinion, order),
                                 ![p].queried = TRUE,
                                 ![p].pc = "comment"]
       \/ procs' = [procs EXCEPT ![p].out = decide(<<>>, procs[p].editing, AI_ENABLED,
                                                   AI_TOPK, opinion, order),
                                 ![p].failed = TRUE,
                                 ![p].pc = IF afterQueryFailure = "verify"
                                           THEN "comment" ELSE "done"]
    /\ UNCHANGED <<idx, clock, repeatFrame>>

\* The tracker calls of run p: the classification comment, whose failure ends the
\* run, and the auto-close block; then the branch into the persist block.
RepeatComment(p) ==
    /\ pc = "repeat" /\ procs[p].pc = "comment"
    /\ \E ok \in retryOutcomes :
          procs' = [procs EXCEPT ![p].pc =
                       IF ~ok \/ ~procs[p].out.shouldUpdateVector THEN "done"
                       ELSE IF procs[p].editing /\ Cardinality(procs[p].ids) > 0
                       THEN "delete"
                       ELSE "upsert"]
    /\ UNCHANGED <<idx, clock, repeatFrame>>

\* index.deleteMany of the ids run p found; when it throws the block ends.
RepeatDelete(p) ==
    /\ pc = "repeat" /\ procs[p].pc = "delete"
    /\ \/ /\ idx' = deleteMany(idx, procs[p].ids)
          /\ procs' = [procs EXCEPT ![p].pc = "upsert"]
       \/ /\ idx' = idx
          /\ procs' = [procs EXCEPT ![p].pc = "done", ![p].failed = TRUE]
    /\ UNCHANGED <<clock, repeatFrame>>

\* index.upsert of run p under a fresh id.
RepeatUpsert(p) ==
    /\ pc = "repeat" /\ procs[p].pc = "upsert"
    /\ \/ /\ idx' = {r \in idx : r.id # vectorId(clock)}
                    \cup {[id |-> vectorId(clock), num |-> ISSUE_NUMBER]}
          /\ clock' = clock + 1
          /\ procs' = [procs EXCEPT ![p].pc = "done"]
       \/ /\ UNCHANGED <<idx, clock>>
          /\ procs' = [procs EXCEPT ![p].pc = "done", ![p].failed = TRUE]
    /\ UNCHANGED repeatFrame

NextRepeat ==
    \E p \in 1..Reruns :
        \/ RepeatLookup(p)
        \/ RepeatList(p)
        \/ RepeatClassify(p)
        \/ RepeatComment(p)
        \/ RepeatDelete(p)
        \/ RepeatUpsert(p)

SpecRepeat == InitRepeat /\ [][NextRepeat]_vars

\* ======================================================================
\* Properties of the classification
\* ======================================================================
TierRank(t) == IF t = "auto-close" THEN 2 ELSE IF t = "flag-related" THEN 1 ELSE 0

\* The matches of the answer that survive self-exclusion and, when enabled, the veto.
numberOf(r) == IF r.num = NoNumber THEN Unknown ELSE r.num

hasPassingVerdict(r) ==
    /\ numberOf(r) \in DOMAIN aiVerdicts
    /\ aiVerdicts[numberOf(r)].valid
    /\ aiVerdicts[numberOf(r)].is_duplicate
    /\ aiVerdicts[numberOf(r)].confidence >= 75

Survivors ==
    {r \in Range(results) : r.num # ISSUE_NUMBER /\ (AI_ENABLED => hasPassingVerdict(r))}

\* C3: the tier is auto-close when a survivor scores >= 0.85, else flag-related when a
\* survivor scores in [0.55, 0.85), else unique; exactly one of the three is produced.
Thm_C3_Tiering ==
    pc = "classified" =>
        /\ out.duplicateAction \in {"auto-close", "flag-related", "unique"}
        /\ out.duplicateAction =
              IF \E r \in Survivors : r.score >= 85 THEN "auto-close"
              ELSE IF \E r \in Survivors : r.score >= 55 /\ r.score < 85 THEN "flag-related"
              ELSE "unique"

Wit_C3_Tiering ==
    /\ pc = "classified"
    /\ out.duplicateAction = "auto-close" /\ out.topMatch.similarity = 85
    /\ \E r \in Range(results) : r.num # ISSUE_NUMBER /\ r.score = 55

\* C4: the flags follow from the tier and the editing status alone: auto-close gives
\* no persist and close = not editing; flag-related and unique give persist, no close.
Thm_C4_Flags ==
    pc = "classified" =>
        /\ out.duplicateAction = "auto-close" =>
              /\ out.shouldUpdateVector = FALSE
              /\ out.shouldAutoClose = ~isEditingExistingIssue
        /\ out.duplicateAction \in {"flag-related", "unique"} =>
              /\ out.shouldUpdateVector = TRUE
              /\ out.shouldAutoClose = FALSE

Wit_C4_Flags ==
    /\ pc = "classified" /\ isEditingExistingIssue
    /\ out.duplicateAction = "auto-close" /\ ~out.shouldAutoClose /\ ~out.shouldUpdateVector

\* C5: a match that carries the subject issue's own number is never the topMatch, is
\* never sent to verification, and the outcome is the one of the answer without it.
withoutSelf(rs) == LET other(r) == r.num # ISSUE_NUMBER IN SelectSeq(rs, other)

Thm_C5_SelfExclusion ==
    pc = "classified" =>
        /\ out.topMatch.number # ISSUE_NUMBER
        /\ \A i \in 1..Len(duplicates) : duplicates[i].number # ISSUE_NUMBER
        /\ ISSUE_NUMBER \notin DOMAIN aiVerdicts
        /\ aiCalls <= Cardinality({r \in Range(results) : r.num # ISSUE_NUMBER})
        /\ out = decide(withoutSelf(results), isEditingExistingIssue,
                        AI_ENABLED, AI_TOPK, opinion, order)

Wit_C5_SelfExclusion ==
    /\ pc = "classified"
    /\ Len(results) >= 2 /\ results[1].num = ISSUE_NUMBER /\ results[1].score >= 85
    /\ results[2].num # ISSUE_NUMBER /\ results[2].score = 55
    /\ out.duplicateAction = "flag-related"

\* C6: raising the score of one match, the others and every task's opinion held
\* fixed, never moves the outcome to a less strict tier.
\* The answers the index can give once match i scores s: the same matches, best first.
Reranked(rs, i, s) ==
    LET raised == [rs[i] EXCEPT !.score = s]
        rest == SubSeq(rs, 1, i - 1) \o SubSeq(rs, i + 1, Len(rs))
    IN {a \in {SubSeq(rest, 1, p) \o <<raised>> \o SubSeq(rest, p + 1, Len(rest)) :
                 p \in 0..Len(rest)} : sortedDesc(a)}

Cex_C6_Monotonic ==
    pc = "classified" =>
        \A i \in 1..Len(results) : \A s \in Scores :
            s > results[i].score =>
                \A rs2 \in Reranked(results, i, s) :
                    TierRank(decide(rs2, isEditingExistingIssue, AI_ENABLED, AI_TOPK,
                                    opinion, order).duplicateAction)
                        >= TierRank(out.duplicateAction)

\* C7: with verification enabled each band is a part of the band computed from the
\* scores alone, and the tier is never stricter than the tier from the scores alone.
Thm_C7_VetoNarrows ==
    (pc = "classified" /\ AI_ENABLED) =>
        /\ \A d \in Range(highSimilarityDuplicates) :
              d \in Range(duplicates) /\ d.similarity >= 85
        /\ \A d \in Range(mediumSimilarityDuplicates) :
              d \in Range(duplicates) /\ d.similarity >= 55 /\ d.similarity < 85
        /\ TierRank(out.duplicateAction)
              <= TierRank(classifyPlain(duplicates, isEditingExistingIssue).duplicateAction)

Wit_C7_VetoNarrows ==
    /\ pc = "classified" /\ AI_ENABLED
    /\ \E d \in Range(duplicates) : d.similarity >= 85
    /\ highSimilarityDuplicates = <<>>
    /\ out.duplicateAction = "flag-related"

\* C8: with verification disabled no verification call is made and the outcome is
\* the outcome of the script that has no verifier.
Thm_C8_DisabledIsPlain ==
    (pc = "classified" /\ ~AI_ENABLED) =>
        /\ aiCalls = 0
        /\ aiVerdicts = EmptyVerdicts
        /\ out = classifyPlain(plainDuplicatesOf(results), isEditingExistingIssue)

Wit_C8_DisabledIsPlain ==
    /\ pc = "classified" /\ ~AI_ENABLED
    /\ Len(duplicates) >= 2 /\ out.duplicateAction = "auto-close" /\ out.shouldAutoClose

\* ======================================================================
\* Properties of the runs
\* ======================================================================
checkRunEnded == pc = "idle" /\ job.script = "check" /\ job.kind # "pull_request"

issued(op) == {i \in 1..Len(log) : log[i].op = op}

\* C1: between runs the index holds at most one record of the subject issue, also
\* after runs in which an index call failed.
Cex_C1_AtMostOneRecord ==
    pc = "idle" => Cardinality(selfRecords(idx)) <= 1

\* C2: a duplicate check that starts with a record of the subject issue in the index
\* never issues the state update that closes the issue.
Cex_C2_NoCloseOnEdit ==
    (job.script = "check" /\ selfRecords(idxAtStart) # {}) => issued("update") = {}

\* C9: a duplicate check of an issue that got past its own tracker and embedding calls
\* has posted exactly one comment, the auto-close error comment not counted, whatever
\* index and auto-close calls failed.
Cex_C9_ExactlyOneComment ==
    (checkRunEnded /\ exit = "ok")
        => Cardinality({i \in posted(log) : log[i].kind # "auto-close-failed"}) = 1

\* C10: a duplicate check that ends on a failed external call has posted at least
\* one comment.
Cex_C10_NeverSilent ==
    (checkRunEnded /\ exit = "rejected") => posted(log) # {}

\* C11: a duplicate check in which an index operation failed, and so a "Temporary
\* Service Issue" comment was attempted, does not end as a successful run.
Cex_C11_IndexFailureFailsRun ==
    (checkRunEnded /\ \E i \in issued("comment") : log[i].kind = "temporary-service-issue")
        => exit # "ok"

\* C13: a duplicate check whose tier is auto-close issues no deleteMany and no upsert,
\* and the index stays what it was when the run started, for new issues and for edits.
Thm_C13_AutoCloseNoMutation ==
    (job.script = "check" /\ out.duplicateAction = "auto-close")
        => idx = idxAtStart /\ issued("deleteMany") = {} /\ issued("upsert") = {}

Wit_C13_AutoCloseNoMutation ==
    /\ checkRunEnded /\ exit = "ok" /\ out.duplicateAction = "auto-close"
    /\ isEditingExistingIssue /\ posted(log) # {}

\* C14: when an edit of an indexed issue is classified auto-close or flag-related, the
\* issue's existing records are still in the index, untouched, at every later point of
\* the run.
Cex_C14_EditLeavesRecord ==
    (job.script = "check" /\ isEditingExistingIssue
     /\ out.duplicateAction \in {"auto-close", "flag-related"})
        => selfRecords(idx) = selfRecords(idxAtStart)

\* C12: in the persist step of an edit run the upsert comes only after a deleteMany
\* that succeeded and removed every id found, a failed deleteMany is followed by no
\* upsert, and an index that held one record of the issue never holds two.
Thm_C12_DeleteThenUpsert ==
    (job.script = "check" /\ isEditingExistingIssue)
        => /\ \A u \in issued("upsert") :
                 \E d \in issued("deleteMany") : d < u /\ log[d].ok
           /\ (\E d \in issued("deleteMany") : ~log[d].ok) => issued("upsert") = {}
           /\ pc = "upsert" => idsOf(idx) \cap existingVectorIds = {}
           /\ Cardinality(selfRecords(idxAtStart)) <= 1
                 => Cardinality(selfRecords(idx)) <= 1

Wit_C12_DeleteThenUpsert ==
    /\ checkRunEnded /\ isEditingExistingIssue
    /\ Cardinality(selfRecords(idxAtStart)) = 1
    /\ \E u \in issued("upsert") : log[u].ok
    /\ selfRecords(idx) # selfRecords(idxAtStart)

\* C15: a fetched issue whose trimmed text is shorter than 10 characters gets the
\* "too short" comment and nothing else: the run never reaches the embedding, the
\* lookup, the query, the verification or the auto-close, and the index is unchanged.
Thm_C15_ShortInputTerminal ==
    (job.script \in {"check", "check-duplicates"} /\ job.kind = "issue" /\ job.len < 10)
        => /\ pc \in {"idle", "short", "basicShort"}
           /\ idx = idxAtStart /\ aiCalls = 0 /\ duplicates = <<>>
           /\ \A i \in 1..Len(log) : log[i].op = "comment" /\ log[i].kind = "too-short"
           /\ Len(log) <= 1
           /\ (pc = "idle" /\ exit = "ok") => posted(log) # {}

Wit_C15_ShortInputTerminal ==
    /\ checkRunEnded /\ exit = "ok" /\ job.len = 9
    /\ selfRecords(idx) # {} /\ posted(log) # {}

\* ======================================================================
\* Properties of retryApiCall
\* ======================================================================
retryWorthy(r) == r = 429 \/ r >= 500

\* C16: retryApiCall makes at most 3 attempts; every attempt but the first follows an
\* error with status 429 or >= 500; it returns at the first attempt that resolves and
\* throws the error of the first attempt that fails otherwise, or of the third.
Thm_C16_RetryPolicy ==
    pc = "retry" =>
        /\ attempt <= 3
        /\ \A k \in 1..(attempt - 1) : apiCall[k] # 200 /\ retryWorthy(apiCall[k])
        /\ settled = "pending" => attempt < 3
        /\ settled = "returned" => attempt >= 1 /\ apiCall[attempt] = 200
        /\ settled = "thrown" =>
              /\ attempt >= 1 /\ apiCall[attempt] # 200
              /\ attempt = 3 \/ ~retryWorthy(apiCall[attempt])
        /\ settled # "pending" =>
              /\ retryApiCall([k \in 1..MaxRetries |-> attemptKind(apiCall[k])]).ok
                    = (settled = "returned")
              /\ retryApiCall([k \in 1..MaxRetries |-> attemptKind(apiCall[k])]).attempts
                    = attempt

Wit_C16_RetryPolicy ==
    /\ pc = "retry" /\ settled = "thrown" /\ attempt = 2
    /\ apiCall[1] = 429 /\ apiCall[2] = 404 /\ apiCall[3] = 200

\* ======================================================================
\* Properties of the runs: faults
\* ======================================================================
IndexCalls == {"lookup", "list", "query"}

\* C17: a call of a duplicate check that meets one transient error (429 or 5xx) is
\* attempted again, so it is never followed at once by the run's fallback for a
\* failed call.
Cex_C17_EveryCallRetried ==
    job.script = "check" =>
        \A n \in 1..Len(log) :
            (log[n].op \in IndexCalls /\ ~log[n].ok /\ log[n].kind = "transient")
                => /\ n < Len(log) => log[n + 1].op = log[n].op
                   /\ n = Len(log) => pc # "idle"

\* C20: once the existing-vector lookup has failed, the run is not editing an
\* existing issue, it has left the lookup, and it does not end before the
\* classification comment is attempted.
Thm_C20_LookupFailureContinues ==
    (job.script = "check" /\ \E n \in 1..Len(log) : log[n].op \in {"lookup", "list"})
        => /\ ~isEditingExistingIssue
           /\ pc \notin {"lookup", "list"}
           /\ pc # "idle" => exit = "running"
           /\ pc = "idle" =>
                 \E n \in issued("comment") : log[n].kind = "classification"
           /\ pc \in {"comment", "label", "close", "persist", "upsert", "idle"}
                 => out.duplicateAction \in {"auto-close", "flag-related", "unique"}

Wit_C20_LookupFailureContinues ==
    /\ checkRunEnded /\ exit = "ok" /\ selfRecords(idxAtStart) # {}
    /\ \E n \in 1..Len(log) : log[n].op = "list"
    /\ \E n \in posted(log) : log[n].kind = "classification"

\* C18: a run issues at most one label-add and one state-update, the state-update only
\* after a label-add that succeeded, and neither of them unless the tier is auto-close
\* and the index held no record of the issue when the run started.
Cex_C18_LabelThenClose ==
    job.script = "check" =>
        /\ Cardinality(issued("label")) <= 1 /\ Cardinality(issued("update")) <= 1
        /\ \A u \in issued("update") : \E l \in issued("label") : l < u /\ log[l].ok
        /\ issued("label") \cup issued("update") # {}
              => out.duplicateAction = "auto-close" /\ selfRecords(idxAtStart) = {}

\* C19: a label-add or state-update that failed is followed at once by the attempt
\* to post the "Auto-close Failed" comment, whether or not that attempt succeeds the
\* run goes on to the persist step and ends normally, and the index is not changed.
Thm_C19_AutoCloseFailure ==
    job.script = "check" =>
        \A n \in issued("label") \cup issued("update") :
            ~log[n].ok
                => /\ n < Len(log)
                   /\ log[n + 1].op = "comment" /\ log[n + 1].kind = "auto-close-failed"
                   /\ pc \in {"persist", "idle"}
                   /\ pc = "idle" => exit = "ok"
                   /\ idx = idxAtStart /\ issued("deleteMany") = {} /\ issued("upsert") = {}

Wit_C19_AutoCloseFailure ==
    /\ checkRunEnded /\ exit = "ok"
    /\ \E n \in issued("update") : ~log[n].ok
    /\ \E n \in issued("comment") : log[n].kind = "auto-close-failed" /\ ~log[n].ok

\* C25: when a close cleanup has posted "Issue Cleanup Completed" and ended without
\* a failing exit, the index holds no record of the closed issue, whatever the number
\* of records in the index.
Cex_C25_CleanupRemovesAll ==
    (/\ pc = "idle" /\ job.script = "cleanup" /\ job.kind = "issue" /\ exit = "ok"
     /\ \E n \in posted(log) : log[n].kind = "cleanup-completed")
        => selfRecords(idx) = {}

\* ======================================================================
\* Properties of the verification fan-out
\* ======================================================================
verifiedSlice == topKSlice(duplicates, AI_TOPK)

\* The task of candidate d gets the candidate and a well-formed answer.
answered(d) ==
    /\ d.number # Unknown
    /\ opinion[d.id].kind = "json" /\ opinion[d.id].isBool /\ opinion[d.id].isNum

\* C21: after the fan-out every selected candidate whose own task got an answer has a
\* verdict recorded under its number, whatever happened to the other tasks, a failed
\* task leaves no verdict, and the run reaches its decision.
Thm_C21_TaskFailureIsolated ==
    (pc = "classified" /\ AI_ENABLED)
        => /\ \A n \in 1..Len(verifiedSlice) :
                 answered(verifiedSlice[n])
                     => /\ verifiedSlice[n].number \in DOMAIN aiVerdicts
                        /\ aiVerdicts[verifiedSlice[n].number].valid
           /\ \A m \in DOMAIN aiVerdicts :
                 \E n \in 1..Len(verifiedSlice) :
                     /\ verifiedSlice[n].number = m /\ answered(verifiedSlice[n])
                     /\ aiVerdicts[m].is_duplicate = opinion[verifiedSlice[n].id].is_duplicate
                     /\ aiVerdicts[m].confidence = opinion[verifiedSlice[n].id].confidence
           /\ out.duplicateAction \in {"auto-close", "flag-related", "unique"}

Wit_C21_TaskFailureIsolated ==
    /\ pc = "classified" /\ AI_ENABLED /\ Len(verifiedSlice) = 2
    /\ answered(verifiedSlice[1]) /\ ~answered(verifiedSlice[2])
    /\ order = <<1, 2>>
    /\ verifiedSlice[1].number \in DOMAIN aiVerdicts

\* ======================================================================
\* Properties of the runs: embedding, pull requests, cleanup
\* ======================================================================
\* C22: a failure of the embedding provider never ends the run: the step yields a
\* vector and the run goes on to classify and to attempt its classification comment.
Cex_C22_EmbeddingNeverThrows ==
    (job.script = "check" /\ \E n \in issued("embed") : log[n].kind \in {"network", "error-payload"})
        => /\ \A n \in issued("embed") : log[n].ok
           /\ pc = "idle" => \E n \in issued("comment") : log[n].kind = "classification"


\* C30: a run of the duplicate check or of the close cleanup whose fetched subject is
\* a pull request has ended at the fetch: no later step of the run is taken, so the
\* index is not queried; nothing is posted, labelled or closed, the index is as it
\* was when the run started, and the run ends normally.
Thm_C30_PullRequestSkipped ==
    (job.kind = "pull_request" /\ exit # "rejected" /\ exit # "exit1") =>
        /\ pc = "idle"
        /\ exit = "ok"
        /\ log = <<>>
        /\ idx = idxAtStart

\* A duplicate-check run on a pull request has ended while the index holds a record.
Wit_C30_PullRequestSkipped ==
    /\ pc = "idle" /\ exit = "ok" /\ runs > 0
    /\ job.script = "check" /\ job.kind = "pull_request" /\ ~tooShort(job.len)
    /\ idx # {}

\* ======================================================================
\* Properties of runs in flight together
\* ======================================================================
allDone == pc = "concurrent" /\ \A p \in Procs : procs[p].pc = "done"

heldFor(ix, n) == {r \in ix : r.num = n}

distinctIssues == \A p, q \in Procs : p # q => procs[p].issue # procs[q].issue

\* C23: when two duplicate checks of the same indexed issue have both persisted, the
\* index holds one record of the issue, the one the later of the two upserts wrote.
Cex_C23_LastWriterWins ==
    allDone =>
        \A p, q \in Procs :
            (/\ p # q /\ procs[p].issue = procs[q].issue
             /\ procs[p].script = "check" /\ procs[q].script = "check"
             /\ procs[p].editing /\ procs[q].editing
             /\ procs[p].seq # 0 /\ procs[q].seq > procs[p].seq)
                => heldFor(idx, procs[q].issue)
                       = {[id |-> procs[q].wrote, num |-> procs[q].issue]}

\* Every record a step removes from or adds to the index belongs to the issue of the
\* run that took the step.
ownRecordsOnly ==
    [][(pc = "concurrent" /\ distinctIssues)
          => \A r \in (idx \ idx') \cup (idx' \ idx) :
                 \E p \in Procs : procs'[p] # procs[p] /\ r.num = procs[p].issue]_vars

\* C24: when the runs in flight are all for different issues, every record a step
\* removes from or adds to the index belongs to the issue of the run that took the
\* step, no issue ever has two records, and once all runs are done the records of
\* the issue of a duplicate check are what that run wrote, or what the index held at
\* the start when it wrote nothing.
Cex_C24_DifferentIssuesIsolated ==
    /\ ownRecordsOnly
    /\ []((pc = "concurrent" /\ distinctIssues)
             => \A n \in ConcIssues : Cardinality(heldFor(idx, n)) <= 1)
    /\ []((allDone /\ distinctIssues)
             => \A p \in Procs :
                    procs[p].script = "check"
                        => heldFor(idx, procs[p].issue)
                             = IF procs[p].wrote # 0
                               THEN {[id |-> procs[p].wrote, num |-> procs[p].issue]}
                               ELSE heldFor(idxAtStart, procs[p].issue))

\* ======================================================================
\* Properties of the maintenance scripts
\* ======================================================================
dedupRan ==
    /\ pc = "done" /\ job.script = "cleanup-duplicates"
    /\ \E k \in DOMAIN log : log[k].op = "query" /\ log[k].ok

fetchedFor(n) == {v \in Range(allVectors) : v.num = n}

leftFor(n) == {v \in vectors : v.num = n}

\* C26: after a de-duplication run whose delete batches all succeeded, every issue
\* number that had a vector among the fetched ones has exactly one vector left in the
\* index, a fetched vector with a clean id is kept in preference to the timestamped
\* ones, and no vector without an issue number has been deleted.
Cex_C26_OnePerIssue ==
    (dedupRan /\ deleted = Len(vectorsToDelete)) =>
        /\ \A n \in 1..MaxIssue :
              fetchedFor(n) # {} =>
                  /\ Cardinality(leftFor(n)) = 1
                  /\ (\E v \in fetchedFor(n) : v.id.stamp = NoStamp)
                        => \E v \in leftFor(n) : v.id.stamp = NoStamp
        /\ \A v \in idxAtStart : v.num = NoNumber => v \in vectors

deleteCalls == {k \in DOMAIN log : log[k].op \in {"deleteMany", "deleteAll"}}

\* C27: neither maintenance script makes a delete call unless --force is among its
\* arguments; started without --force, or with --help or -h, the script makes no
\* index call at all, leaves the index as it was and exits with code 0.
Thm_C27_ForceRequired ==
    /\ deleteCalls # {} => "--force" \in args
    /\ ("--force" \notin args \/ "--help" \in args \/ "-h" \in args) =>
          /\ pc \in {"args", "done"}
          /\ log = <<>>
          /\ vectors = idxAtStart
          /\ exit = "ok"

\* A run of either script without --force has ended on an index that holds two
\* vectors of one issue.
Wit_C27_ForceRequired ==
    /\ pc = "done" /\ args = {}
    /\ \E v, w \in vectors : v # w /\ v.num = w.num /\ v.num # NoNumber

\* ======================================================================
\* Properties of the configuration
\* ======================================================================
atLeastConfigured(r) == r.score >= SIMILARITY_THRESHOLD

\* C28: the candidates of a classification are exactly the matches of other issues
\* whose score is at least the configured SIMILARITY_THRESHOLD.
Cex_C28_ThresholdConfigurable ==
    pc \in {"classified", "classifiedPlain"} =>
        duplicates = sortBySimilarity(MapCandidates(
                         SelectSeq(SelectSeq(results, notSelf), atLeastConfigured)))

\* ======================================================================
\* Properties of the repeated check
\* ======================================================================
sameDecision(a, b) ==
    /\ a.duplicateAction = b.duplicateAction
    /\ a.shouldUpdateVector = b.shouldUpdateVector
    /\ a.shouldAutoClose = b.shouldAutoClose

\* C29: two duplicate-check runs in a row on the same issue, whose similarity queries
\* gave the same answer, with no index change but the first run's own, end with the
\* same tier, the same shouldUpdateVector and the same shouldAutoClose.
Cex_C29_SameDecisionTwice ==
    \A p \in 1..(Reruns - 1) :
        (/\ pc = "repeat" /\ procs[p].pc = "done" /\ procs[p + 1].pc = "done"
         /\ procs[p].queried /\ procs[p + 1].queried)
            => sameDecision(procs[p].out, procs[p + 1].out)

\* ======================================================================
\* Properties of the runs: order of the calls
\* ======================================================================
Mutations == {"label", "update", "deleteMany", "upsert"}

classificationPosted(k) ==
    log[k].op = "comment" /\ log[k].kind = "classification" /\ log[k].ok

\* C31: in a duplicate-check run every label, state-update, deleteMany and upsert call
\* comes after the successfully posted classification comment; a run whose
\* classification comment failed has ended with no such call, the issue not closed
\* and the index as it was at the start of the run.
Thm_C31_CommentFirst ==
    job.script = "check" =>
        /\ \A k \in DOMAIN log :
              log[k].op \in Mutations => \E j \in 1..(k - 1) : classificationPosted(j)
        /\ (\E k \in DOMAIN log : log[k].op = "comment" /\ log[k].kind = "classification"
                                    /\ ~log[k].ok)
              => /\ pc = "idle" /\ exit = "rejected"
                 /\ idx = idxAtStart
                 /\ \A k \in DOMAIN log : log[k].op \notin Mutations

\* A run has posted its comment, then labelled and closed the issue.
Wit_C31_CommentFirst ==
    /\ job.script = "check" /\ pc = "idle"
    /\ \E j, k \in DOMAIN log :
          j < k /\ classificationPosted(j) /\ log[k].op = "update" /\ log[k].ok

\* ======================================================================
\* Properties of the veto
\* ======================================================================
storedVerdictPasses(d) ==
    /\ d.number \in DOMAIN aiVerdicts
    /\ aiVerdicts[d.number].valid
    /\ aiVerdicts[d.number].is_duplicate
    /\ aiVerdicts[d.number].confidence >= 75

\* C32: with verification enabled a candidate is in its band after the filter exactly
\* when the verdict stored under its number is valid, says duplicate and has a
\* confidence of at least 0.75; when no candidate of the high band passes, the tier is
\* flag-related if a candidate of the medium band passes and unique otherwise.
Thm_C32_VerdictFilter ==
    (pc = "classified" /\ AI_ENABLED) =>
        /\ \A d \in Range(duplicates) :
              /\ d.similarity >= 85
                    => (d \in Range(highSimilarityDuplicates) <=> storedVerdictPasses(d))
              /\ (d.similarity >= 55 /\ d.similarity < 85)
                    => (d \in Range(mediumSimilarityDuplicates) <=> storedVerdictPasses(d))
        /\ (\A d \in Range(duplicates) : d.similarity >= 85 => ~storedVerdictPasses(d))
              => out.duplicateAction =
                    IF \E d \in Range(duplicates) :
                          d.similarity >= 55 /\ d.similarity < 85 /\ storedVerdictPasses(d)
                    THEN "flag-related" ELSE "unique"

\* The high candidate was answered with confidence 0.74 and dropped, the medium one
\* with exactly 0.75 and kept: the decision is flag-related.
Wit_C32_VerdictFilter ==
    /\ pc = "classified" /\ AI_ENABLED
    /\ \E d, e \in Range(duplicates) :
          /\ d.similarity >= 85 /\ d.number \in DOMAIN aiVerdicts
          /\ aiVerdicts[d.number].confidence = 74 /\ aiVerdicts[d.number].is_duplicate
          /\ e.similarity < 85 /\ e.number \in DOMAIN aiVerdicts
          /\ aiVerdicts[e.number].confidence = 75
          /\ e \in Range(mediumSimilarityDuplicates)
    /\ highSimilarityDuplicates = <<>>
    /\ out.duplicateAction = "flag-related"

\* C33: with verification enabled at most AI_TOPK verification requests are issued, no
\* candidate ranked below the first AI_TOPK is left in a band, and the top match of an
\* auto-close or flag-related decision is one of the first AI_TOPK candidates.
Cex_C33_OnlyTopKSurvive ==
    (pc = "classified" /\ AI_ENABLED) =>
        /\ aiCalls <= AI_TOPK
        /\ \A k \in DOMAIN duplicates :
              k > AI_TOPK => /\ duplicates[k] \notin Range(highSimilarityDuplicates)
                             /\ duplicates[k] \notin Range(mediumSimilarityDuplicates)
        /\ out.duplicateAction \in {"auto-close", "flag-related"}
              => \E k \in 1..Min(AI_TOPK, Len(duplicates)) : out.topMatch = duplicates[k]

\* C34: every verdict stored in the verdict map has a confidence within [0, 1], and a
\* candidate whose verifier response carried a confidence outside [0, 1] is not kept
\* in a band on the strength of it.
Cex_C34_ConfidenceInRange ==
    (pc = "classified" /\ AI_ENABLED) =>
        /\ \A n \in DOMAIN aiVerdicts :
              aiVerdicts[n].valid
                  => aiVerdicts[n].confidence >= 0 /\ aiVerdicts[n].confidence <= 100
        /\ \A d \in Range(highSimilarityDuplicates) \cup Range(mediumSimilarityDuplicates) :
              aiVerdicts[d.number].confidence <= 100

\* C35: the tier and the top match of a classification are the same for every order in
\* which the verification tasks could have settled.
Cex_C35_OrderIndependent ==
    (pc = "classified" /\ AI_ENABLED) =>
        \A ord \in Perms(Len(order)) :
            LET other == decide(results, isEditingExistingIssue, AI_ENABLED, AI_TOPK,
                                opinion, ord)
            IN /\ other.duplicateAction = out.duplicateAction
               /\ other.topMatch = out.topMatch

\* ======================================================================
\* Properties of the existing-vector lookup
\* ======================================================================
\* C36: each answered call of the fallback listing, in the duplicate check and in the
\* cleanup of one issue, takes the page after the token and either moves the token
\* forward, so no page is visited twice and the loop ends on a finite index, or was
\* the last page; when the loop ends the ids collected are those of all records of
\* the subject issue and of no other.
Thm_C36_ListingComplete ==
    [][(pc \in {"list", "specificList"} /\ log' = log) =>
          \/ /\ pc' = pc
             /\ paginationToken' > paginationToken
             /\ idsOf(selfRecords(idx)) \cap (paginationToken + 1..paginationToken')
                   \subseteq existingVectorIds'
          \/ /\ pc' # pc
             /\ existingVectorIds' = idsOf(selfRecords(idx))
             /\ pc = "list" => /\ pc' = "query"
                               /\ isEditingExistingIssue' = (selfRecords(idx) # {})
             /\ pc = "specificList"
                   => pc' = IF selfRecords(idx) = {} THEN "idle" ELSE "specificDelete"]_vars

\* The listing has ended after more than one page and found the subject's record,
\* which lay beyond the first page.
Wit_C36_ListingComplete ==
    /\ pc = "query" /\ ~filterWorks /\ log = <<>>
    /\ Cardinality(idx) > PageLimit
    /\ existingVectorIds # {}
    /\ existingVectorIds \cap idsOf(listPage(idx, 0)) = {}

\* ======================================================================
\* Properties of the runs: a failed similarity query
\* ======================================================================
queryFailed == \E k \in DOMAIN log : log[k].op = "query" /\ ~log[k].ok

\* C37: a duplicate-check run whose similarity query failed goes on: it decides
\* unique with the vector to be persisted and no auto-close, makes no label or
\* state-update call, makes the classification comment call, and once that comment is
\* posted ends only after a call of the persist block.
Thm_C37_QueryFailureUnique ==
    (job.script = "check" /\ queryFailed) =>
        /\ duplicates = <<>>
        /\ pc # "verify" /\ pc # "query"
              => /\ out.duplicateAction = "unique"
                 /\ out.shouldUpdateVector /\ ~out.shouldAutoClose
        /\ \A k \in DOMAIN log : log[k].op \notin {"label", "update"}
        /\ pc = "idle"
              => /\ \E k \in DOMAIN log :
                       log[k].op = "comment" /\ log[k].kind = "classification"
                 /\ (\E k \in DOMAIN log : classificationPosted(k))
                       => \E k \in DOMAIN log : log[k].op \in {"deleteMany", "upsert"}

\* A run on an index with records has ended after a failed similarity query, with its
\* comment posted and its vector inserted.
Wit_C37_QueryFailureUnique ==
    /\ job.script = "check" /\ queryFailed /\ pc = "idle" /\ exit = "ok"
    /\ \E k \in DOMAIN log : classificationPosted(k)
    /\ \E k \in DOMAIN log : log[k].op = "upsert" /\ log[k].ok
    /\ idx # idxAtStart

\* C38: from the classification to the end of the persist block of a duplicate-check
\* run, isEditingExistingIssue is true exactly when existingVectorIds is not empty.
Cex_C38_FlagMatchesIds ==
    (job.script = "check" /\ pc \in {"verify", "comment", "label", "close", "persist", "upsert"})
        => (isEditingExistingIssue <=> existingVectorIds # {})

\* ======================================================================
\* Properties of the runs: convergence
\* ======================================================================
noFailedCall == exit = "ok" /\ \A k \in DOMAIN log : log[k].ok

severalAtStart == Cardinality(selfRecords(idxAtStart)) > 1

\* C39: a run that started on an index with several records of the issue and ended
\* with no failed call leaves exactly one record of the issue when it is a duplicate
\* check that decided to persist, and none when it is a close cleanup.
Cex_C39_Convergence ==
    (pc = "idle" /\ job.kind = "issue" /\ severalAtStart /\ noFailedCall) =>
        /\ (job.script = "check" /\ ~tooShort(job.len) /\ out.shouldUpdateVector)
              => Cardinality(selfRecords(idx)) = 1
        /\ job.script = "cleanup" => selfRecords(idx) = {}

====
